---------------------------- MODULE Spec2Model ----------------------------
(***************************************************************************)
(* Model of aws-calculator-mcp (src/unnamed/part_001, the newest revision  *)
(* of index.js): the value normalizer (resolveValue, buildComponentValue,  *)
(* buildCalcComponents), the schema extractor (extractInputs) and the      *)
(* create_estimate tool with its save / strip-and-retry protocol.          *)
(*                                                                         *)
(* JSON values.  A scalar is a record [k, v]: k is the JavaScript kind     *)
(* ("null", "str", "num", "obj") and v the text of the value; "obj" is a   *)
(* plain object that has no `value` key (a pricingStrategy selection).     *)
(* A raw component value is [w, val, unit]: w says that the JSON value is  *)
(* an object with a `value` key ({value: val, unit?: unit}); otherwise the *)
(* JSON value is the scalar val itself.  unit = "" is an absent unit.      *)
(* Costs are natural numbers (whole dollars).                              *)
(***************************************************************************)
EXTENDS Integers, Sequences, FiniteSets, TLC

\* ------------------------------------------------------------- JSON values

Null == [k |-> "null", v |-> ""]
Str(s) == [k |-> "str", v |-> s]
Num(s) == [k |-> "num", v |-> s]
Obj(s) == [k |-> "obj", v |-> s]

Bare(x) == [w |-> FALSE, val |-> x, unit |-> ""]
Wrapped(x, u) == [w |-> TRUE, val |-> x, unit |-> u]

\* typeof v === "object" && v !== null
IsObject(raw) == raw.w \/ raw.val.k = "obj"

\* The empty JavaScript object {} as a map from keys to values.
EmptyMap == [x \in {} |-> Null]

Min(a, b) == IF a <= b THEN a ELSE b

\* ------------------------------------------------------ schema extraction

\* A component of a definition's inputSection.  "" is an absent string,
\* Null an absent value, <<>> an absent list.
Comp(id, type, subType, defaultValue, unit, unitOptions, options) ==
  [id |-> id, type |-> type, subType |-> subType, defaultValue |-> defaultValue,
   value |-> Null, unit |-> unit, unitOptions |-> unitOptions, options |-> options,
   radioGroups |-> <<>>, radioOptions |-> <<>>, defaultSelection |-> "",
   mappingDefinitionName |-> "", components |-> <<>>,
   originalId |-> "", replacements |-> <<>>, meteredUnit |-> "", refers |-> "",
   tiers |-> <<>>]

Opt(label, value) == [label |-> label, value |-> value]

\* field.options of extractInputs: label falls back to the value.
MapOptions(opts) ==
  [i \in 1..Len(opts) |->
     [label |-> IF opts[i].label # "" THEN opts[i].label ELSE opts[i].value,
      value |-> opts[i].value]]

\* The default object of a pricingStrategy field: {rg.value: rg.defaultOption, ...}
RECURSIVE RadioDefault(_)
RadioDefault(rgs) ==
  IF rgs = <<>> THEN ""
  ELSE Head(rgs).value \o "=" \o Head(rgs).defaultOption \o ";" \o RadioDefault(Tail(rgs))

FieldOf(comp) ==
  LET type == IF comp.subType # "" THEN comp.subType ELSE comp.type
      sized == type \in {"frequency", "fileSize"}
      default0 == IF comp.defaultValue # Null THEN comp.defaultValue ELSE comp.value
      default1 == IF comp.subType = "pricingStrategy" /\ Len(comp.radioGroups) > 0
                  THEN Obj(RadioDefault(comp.radioGroups)) ELSE default0
      tiles == comp.subType = "radioTiles" /\ Len(comp.radioOptions) > 0
      defaultUnit ==
        IF ~sized THEN ""
        ELSE IF comp.unitOptions # <<>>
             THEN (IF comp.unitOptions[1] # "" THEN comp.unitOptions[1] ELSE comp.unit)
             ELSE comp.unit
  IN [id |-> comp.id,
      type |-> type,
      default |-> IF tiles
                  THEN (IF comp.defaultSelection # "" THEN Str(comp.defaultSelection) ELSE Null)
                  ELSE default1,
      defaultUnit |-> defaultUnit,
      options |-> IF tiles THEN MapOptions(comp.radioOptions) ELSE MapOptions(comp.options)]

RECURSIVE walkComponents(_)
walkComponents(comps) ==
  IF comps = <<>> THEN <<>>
  ELSE LET c == Head(comps)
       IN (IF c.id # "" THEN <<FieldOf(c)>> ELSE <<>>)
          \o walkComponents(c.components)
          \o walkComponents(Tail(comps))

RECURSIVE walkCards(_)
walkCards(cards) ==
  IF cards = <<>> THEN <<>>
  ELSE walkComponents(Head(cards).components) \o walkCards(Tail(cards))

RECURSIVE extractInputs(_)
extractInputs(templates) ==
  IF templates = <<>> THEN <<>>
  ELSE walkCards(Head(templates).cards) \o extractInputs(Tail(templates))

\* ------------------------------------------------------- value normalizer

\* Array.prototype.find over the options: the index of the first option whose
\* label or value is the string s, 0 when there is none.
FindOption(options, s) ==
  LET hits == {i \in 1..Len(options) : options[i].label = s \/ options[i].value = s}
  IN IF hits = {} THEN 0 ELSE CHOOSE i \in hits : \A j \in hits : i <= j

\* resolveValue comparing option values only: a label is never resolved.
ResolveValueOnly(input, rawValue) ==
  LET hits == {i \in 1..Len(input.options) : input.options[i].value = rawValue.v}
  IN IF rawValue.k = "str" /\ hits # {}
     THEN Str(input.options[CHOOSE i \in hits : \A j \in hits : i <= j].value)
     ELSE rawValue

resolveValue(input, rawValue) ==
  IF input.options # <<>> /\ rawValue.k = "str" /\ FindOption(input.options, rawValue.v) # 0
  THEN Str(input.options[FindOption(input.options, rawValue.v)].value)
  ELSE rawValue

\* input = NoInput is the JavaScript undefined of an unknown key.
NoInput == [id |-> "", type |-> "", default |-> Null, defaultUnit |-> "", options |-> <<>>]

buildComponentValue(input, value) ==
  IF input = NoInput THEN Wrapped(value, "")
  ELSE IF input.type = "pricingStrategy" /\ value.k = "obj" THEN Bare(value)
  ELSE IF input.type \in {"frequency", "fileSize"} /\ input.defaultUnit # ""
       THEN Wrapped(value, input.defaultUnit)
  ELSE Wrapped(value, "")

\* The test of a default without its empty-string half.
MeaningfulNotNull(inp) == inp.default # Null

\* inp.default != null && inp.default !== ""
Meaningful(inp) == inp.default # Null /\ inp.default # Str("")

\* inputMap[k]: the last field of the list with that id.
InputMap(inputs, k) ==
  LET hits == {i \in 1..Len(inputs) : inputs[i].id = k}
  IN IF hits = {} THEN NoInput
     ELSE inputs[CHOOSE i \in hits : \A j \in hits : j <= i]

\* The loop `for (const inp of inputs) if (meaningful) cc[inp.id] = ...`.
RECURSIVE AddDefaults(_, _)
AddDefaults(inputs, cc) ==
  IF inputs = <<>> THEN cc
  ELSE LET inp == Head(inputs)
       IN AddDefaults(Tail(inputs),
            IF Meaningful(inp)
            THEN [k \in DOMAIN cc \cup {inp.id} |->
                    IF k = inp.id THEN buildComponentValue(inp, inp.default) ELSE cc[k]]
            ELSE cc)

\* The value one user entry is stored as (the body of the overlay loop).
OverlayEntry(inp, v) ==
  IF inp.type = "pricingStrategy" /\ IsObject(v)
  THEN Bare(v.val)
  ELSE IF v.w
  THEN Wrapped(IF inp # NoInput THEN resolveValue(inp, v.val) ELSE v.val, v.unit)
  ELSE buildComponentValue(inp, IF inp # NoInput THEN resolveValue(inp, v.val) ELSE v.val)

\* buildCalcComponents with the two loops swapped: defaults overwrite the user.
BuildCalcDefaultsWin(inputs, userInputs) ==
  LET defaults == AddDefaults(inputs, EmptyMap)
  IN IF DOMAIN userInputs # {}
     THEN [k \in DOMAIN defaults \cup DOMAIN userInputs |->
             IF k \in DOMAIN defaults
             THEN defaults[k]
             ELSE OverlayEntry(InputMap(inputs, k), userInputs[k])]
     ELSE defaults

buildCalcComponents(inputs, userInputs) ==
  LET defaults == AddDefaults(inputs, EmptyMap)
  IN IF DOMAIN userInputs # {}
     THEN [k \in DOMAIN defaults \cup DOMAIN userInputs |->
             IF k \in DOMAIN userInputs
             THEN OverlayEntry(InputMap(inputs, k), userInputs[k])
             ELSE defaults[k]]
     ELSE defaults


\* ------------------------------------------------- definitions and inputs

MaxFields == 2
MaxUserKeys == 2

StorageOptions == <<Opt("S3 Standard", "s3Standard"), Opt("S3 Glacier", "s3Glacier")>>
\* A dropdown whose second option's label is the first option's value.
TierOptions == <<Opt("0", "1"), Opt("1", "2")>>

StorageComps ==
  <<[Comp("storageClass", "dropdown", "", Str("s3Standard"), "", <<>>, StorageOptions)
       EXCEPT !.mappingDefinitionName = "s3"],
    [Comp("", "container", "", Null, "", <<>>, <<>>) EXCEPT
       !.components =
         <<Comp("dataSize", "input", "fileSize", Num("100"), "", <<"GB", "TB">>, <<>>),
           Comp("emptyField", "text", "", Null, "", <<>>, <<>>)>>]>>

TierComps ==
  <<[Comp("tier", "dropdown", "", Str("2"), "", <<>>, TierOptions)
       EXCEPT !.mappingDefinitionName = "tier"],
    Comp("note", "text", "", Str(""), "", <<>>, <<>>),
    [Comp("pricing", "input", "pricingStrategy", Null, "", <<>>, <<>>) EXCEPT
       !.radioGroups = <<[value |-> "model", defaultOption |-> "ondemand"]>>],
    [Comp("requests", "input", "frequency", Num("1000"), "", <<>>, <<>>)
       EXCEPT !.mappingDefinitionName = "s3"]>>

\* A second template that declares storageClass again, as free text.
AltComps == <<Comp("storageClass", "text", "", Str("custom"), "", <<>>, <<>>)>>

\* A displayIf condition; op "" is an absent one.  left is the id of a
\* {type: "component", id} reference ("" when the left part is the literal
\* leftLiteral), right a literal.
NoCond ==
  [op |-> "", args |-> <<>>, type |-> "", mappingDefinitionName |-> "", meteredUnit |-> "",
   left |-> "", leftLiteral |-> Null, right |-> Null]
Exists(mapping, unit) ==
  [NoCond EXCEPT !.op = "exists", !.type = "meteredUnit", !.mappingDefinitionName = mapping,
                 !.meteredUnit = unit]
Not(c) == [NoCond EXCEPT !.op = "not", !.args = <<c>>]
And(cs) == [NoCond EXCEPT !.op = "and", !.args = cs]
Or(cs) == [NoCond EXCEPT !.op = "or", !.args = cs]
Equals(id, lit) == [NoCond EXCEPT !.op = "==", !.left = id, !.right = lit]

\* An operand of a math component: null, a number, {constant}, {variableId},
\* {refer}, {value} or an object with none of these.
Operand(kind, lit, ref) == [kind |-> kind, lit |-> lit, ref |-> ref]
Constant(lit) == Operand("constant", lit, "")
Variable(id) == Operand("variableId", Null, id)

\* A component of a card's mathsSection.
MathComp(subType, id) ==
  [type |-> "maths", subType |-> subType, id |-> id, operation |-> "", operands |-> <<>>,
   method |-> "", factor |-> Null, inputRefer |-> "", tieredPricingRefer |-> "",
   subTotalRefer |-> "", costType |-> "", displayIf |-> NoCond]
BasicMaths(id, operation, operands) ==
  [MathComp("basicMaths", id) EXCEPT !.operation = operation, !.operands = operands]
PriceDisplay(subTotalRefer, costType) ==
  [MathComp("priceDisplay", "") EXCEPT
     !.type = "display", !.subTotalRefer = subTotalRefer, !.costType = costType]
MathOp(comps) == [components |-> comps]

\* A card: inputSection.components, and the mathsSection when it has one.
Card(comps) ==
  [components |-> comps, hasMaths |-> FALSE, mathsSection |-> <<>>, displayIf |-> NoCond]
MathCard(comps, displayIf, mathsSection) ==
  [components |-> comps, hasMaths |-> TRUE, mathsSection |-> mathsSection,
   displayIf |-> displayIf]
Template(id, cards) == [id |-> id, cards |-> cards]

\* Every input field of the definitions above.
FieldPool ==
  LET fs == extractInputs(<<Template("t1", <<Card(StorageComps), Card(TierComps)>>),
                            Template("t2", <<Card(AltComps)>>)>>)
  IN {fs[i] : i \in 1..Len(fs)}

RECURSIVE SeqsUpTo(_, _)
SeqsUpTo(S, n) ==
  IF n = 0 THEN {<<>>}
  ELSE LET shorter == SeqsUpTo(S, n - 1)
       IN shorter \cup {Append(s, x) : s \in shorter, x \in S}

UserKeys == {"storageClass", "tier", "dataSize", "unknownField"}

RawPool ==
  {Bare(Str("S3 Glacier")), Wrapped(Str("S3 Glacier"), ""), Bare(Str("1")),
   Wrapped(Num("500"), "TB"), Bare(Str("other")), Bare(Obj("model=reserved;"))}

UserMaps ==
  UNION {[ks -> RawPool] : ks \in {K \in SUBSET UserKeys : Cardinality(K) <= MaxUserKeys}}

ScalarPool == {Null, Num("42"), Str("S3 Glacier"), Str("s3Standard"), Str("1"),
               Str("0"), Str("2"), Str("other"), Obj("model=reserved;")}

\* ------------------------------------------------ the definition store

\* An excerpt of the region-code -> display-name table.
REGION_NAMES ==
  [r \in {"us-east-1", "eu-west-1"} |->
     IF r = "us-east-1" THEN "US East (N. Virginia)" ELSE "EU (Ireland)"]

SubComps ==
  <<[Comp("requests", "input", "frequency", Num("1000"), "per month", <<>>, <<>>)
       EXCEPT !.mappingDefinitionName = "s3"],
    Comp("storageClass", "dropdown", "", Null, "", <<>>, StorageOptions)>>

\* A service that prices units: cost = units * unitPrice per month, and an
\* upfront fee of 2 - units, which is negative for more than 2 units.
PricedComps ==
  <<Comp("units", "input", "numericInput", Num("3"), "", <<>>, <<>>),
    [Comp("unitPrice", "pricing", "singlePricePoint", Null, "", <<>>, <<>>) EXCEPT
       !.mappingDefinitionName = "s3", !.meteredUnit = "perUnit"]>>
PricedMaths ==
  <<MathOp(<<BasicMaths("cost", "multiplication", <<Variable("units"), Variable("unitPrice")>>),
             PriceDisplay("cost", "")>>),
    MathOp(<<BasicMaths("fee", "subtraction", <<Constant(Num("2")), Variable("units")>>),
             PriceDisplay("fee", "Upfront")>>)>>
\* A card shown only where the price table lists the unit "premium".
PremiumMaths ==
  <<MathOp(<<BasicMaths("extra", "addition", <<Variable("cost"), Constant(Str("1.5"))>>),
             PriceDisplay("extra", "Monthly")>>)>>
\* The math of an alternative template.
AltMaths == <<MathOp(<<PriceDisplay("units", "Monthly")>>)>>

\* A sub-service whose monthly amount is requests - 12.
PricedSubComps ==
  <<Comp("requests", "input", "frequency", Num("10"), "per month", <<>>, <<>>),
    [Comp("unitPrice", "pricing", "singlePricePoint", Null, "", <<>>, <<>>) EXCEPT
       !.mappingDefinitionName = "s3", !.meteredUnit = "perUnit"]>>
PricedSubMaths ==
  <<MathOp(<<BasicMaths("subCost", "subtraction",
               <<Variable("requests"), Constant(Num("12")), Variable("unitPrice")>>),
             PriceDisplay("subCost", "Monthly"),
             PriceDisplay("", "Upfront")>>)>>

\* A store priced by tiers and by storage class.
StoreComps ==
  <<Comp("storageClass", "dropdown", "", Str("s3Standard"), "", <<>>, StorageOptions),
    Comp("storageGB", "input", "fileSize", Num("3"), "GB", <<"GB", "TB">>, <<>>),
    [Comp("classUnit", "pricing", "replace", Null, "", <<>>, <<>>) EXCEPT
       !.originalId = "storageClass",
       !.replacements = <<[originalString |-> Str("s3Standard"), replaceString |-> "perUnit"],
                          [originalString |-> Str("0"), replaceString |-> "premium"]>>],
    [Comp("classPrice", "pricing", "pricingComboV2", Null, "", <<>>, <<>>) EXCEPT
       !.mappingDefinitionName = "s3", !.refers = "classUnit"],
    [Comp("storageTier", "pricing", "tieredPricing", Null, "", <<>>, <<>>) EXCEPT
       !.mappingDefinitionName = "s3",
       !.tiers = <<[startOfTier |-> 0, endOfTier |-> 2, meteredUnit |-> "perUnit"],
                   [startOfTier |-> 3, endOfTier |-> -1, meteredUnit |-> "premium"]>>]>>
StoreMaths ==
  <<MathOp(<<[MathComp("tieredPricingMath", "tiered") EXCEPT
                !.inputRefer = "storageGB", !.tieredPricingRefer = "storageTier"],
             [MathComp("rounding", "rounded") EXCEPT
                !.method = "roundUp", !.factor = Str("2"), !.operands = <<Variable("tiered")>>],
             [MathComp("maxMin", "capped") EXCEPT
                !.operation = "Minimum",
                !.operands = <<Variable("rounded"), Constant(Num("100"))>>],
             [MathComp("", "note") EXCEPT !.type = "display"],
             PriceDisplay("capped", "Monthly"),
             BasicMaths("classCost", "division", <<Variable("storageGB"), Variable("classPrice")>>),
             [PriceDisplay("classCost", "Upfront") EXCEPT
                !.displayIf = Not(Equals("storageClass", Str("s3Glacier")))]>>)>>

\* A service whose metered units are chosen by replace components: over a
\* dropdown, over a number, over an input that has no default, over the output
\* of an earlier replace and over the output of a price lookup.
ReplaceComps ==
  <<Comp("storageClass", "dropdown", "", Str("s3Standard"), "", <<>>, StorageOptions),
    Comp("units", "input", "numericInput", Num("3"), "", <<>>, <<>>),
    Comp("mode", "dropdown", "", Null, "", <<>>, <<Opt("Fast", "fast")>>),
    [Comp("classUnit", "pricing", "replace", Null, "", <<>>, <<>>) EXCEPT
       !.originalId = "storageClass",
       !.replacements = <<[originalString |-> Str("s3Standard"), replaceString |-> "perUnit"],
                          [originalString |-> Str("s3Glacier"), replaceString |-> "premium"]>>],
    [Comp("unitsUnit", "pricing", "replace", Null, "", <<>>, <<>>) EXCEPT
       !.originalId = "units",
       !.replacements = <<[originalString |-> Num("3"), replaceString |-> "perUnit"],
                          [originalString |-> Str("3"), replaceString |-> "premium"],
                          [originalString |-> Str("2"), replaceString |-> "premium"]>>],
    [Comp("modeUnit", "pricing", "replace", Null, "", <<>>, <<>>) EXCEPT
       !.originalId = "mode",
       !.replacements = <<[originalString |-> Str("undefined"), replaceString |-> "premium"],
                          [originalString |-> Str(""), replaceString |-> "perUnit"]>>],
    [Comp("chainUnit", "pricing", "replace", Null, "", <<>>, <<>>) EXCEPT
       !.originalId = "unitsUnit",
       !.replacements = <<[originalString |-> Str("perUnit"), replaceString |-> "premium"]>>],
    [Comp("priceUnit", "pricing", "replace", Null, "", <<>>, <<>>) EXCEPT
       !.originalId = "unitPrice",
       !.replacements = <<[originalString |-> Str("0.5"), replaceString |-> "premium"],
                          [originalString |-> Str(""), replaceString |-> "perUnit"]>>],
    [Comp("unitPrice", "pricing", "singlePricePoint", Null, "", <<>>, <<>>) EXCEPT
       !.mappingDefinitionName = "s3", !.meteredUnit = "perUnit"],
    [Comp("classPrice", "pricing", "pricingComboV2", Null, "", <<>>, <<>>) EXCEPT
       !.mappingDefinitionName = "s3", !.refers = "classUnit"],
    [Comp("chainPrice", "pricing", "pricingComboV2", Null, "", <<>>, <<>>) EXCEPT
       !.mappingDefinitionName = "s3", !.refers = "chainUnit"],
    [Comp("unitsTier", "pricing", "tieredPricing", Null, "", <<>>, <<>>) EXCEPT
       !.mappingDefinitionName = "s3",
       !.tiers = <<[startOfTier |-> 0, endOfTier |-> -1, meteredUnit |-> "premium"]>>]>>

\* A service priced from two tables, by a price point, a combo and tiers in
\* each.
TwoTableComps ==
  <<Comp("units", "input", "numericInput", Num("3"), "", <<>>, <<>>),
    [Comp("unitsUnit", "pricing", "replace", Null, "", <<>>, <<>>) EXCEPT
       !.originalId = "units",
       !.replacements = <<[originalString |-> Num("3"), replaceString |-> "perUnit"]>>],
    [Comp("s3Price", "pricing", "singlePricePoint", Null, "", <<>>, <<>>) EXCEPT
       !.mappingDefinitionName = "s3", !.meteredUnit = "perUnit"],
    [Comp("tierPrice", "pricing", "singlePricePoint", Null, "", <<>>, <<>>) EXCEPT
       !.mappingDefinitionName = "tier", !.meteredUnit = "perUnit"],
    [Comp("s3Combo", "pricing", "pricingComboV2", Null, "", <<>>, <<>>) EXCEPT
       !.mappingDefinitionName = "s3", !.refers = "unitsUnit"],
    [Comp("tierCombo", "pricing", "pricingComboV2", Null, "", <<>>, <<>>) EXCEPT
       !.mappingDefinitionName = "tier", !.refers = "unitsUnit"],
    [Comp("s3Tiers", "pricing", "tieredPricing", Null, "", <<>>, <<>>) EXCEPT
       !.mappingDefinitionName = "s3",
       !.tiers = <<[startOfTier |-> 0, endOfTier |-> -1, meteredUnit |-> "perUnit"]>>],
    [Comp("tierTiers", "pricing", "tieredPricing", Null, "", <<>>, <<>>) EXCEPT
       !.mappingDefinitionName = "tier",
       !.tiers = <<[startOfTier |-> 0, endOfTier |-> -1, meteredUnit |-> "perUnit"]>>]>>

\* Fields a second pass of the normalizer changes: a dropdown whose first
\* option is labelled with the value of the second, and a dropdown whose
\* default is a label.
LevelOptions == <<Opt("1", "2"), Opt("0", "1")>>
RoundTripComps ==
  <<Comp("level", "dropdown", "", Str("2"), "", <<>>, LevelOptions),
    Comp("dataSize", "input", "fileSize", Num("100"), "", <<"GB", "TB">>, <<>>),
    [Comp("pricing", "input", "pricingStrategy", Null, "", <<>>, <<>>) EXCEPT
       !.radioGroups = <<[value |-> "model", defaultOption |-> "ondemand"]>>]>>
LabelDefaultComps ==
  <<Comp("storageClass", "dropdown", "", Str("S3 Glacier"), "", <<>>, StorageOptions)>>

\* What GET data/{serviceCode}/en_US.json returns when it succeeds.  "" is an
\* absent string; subServices lists the serviceCodes of the references.
ServiceDef(code) ==
  CASE code = "amazonS3" ->
         [serviceCode |-> "amazonS3", version |-> "1.5", estimateFor |-> "s3",
          templates |-> <<Template("s3Template", <<Card(StorageComps)>>)>>,
          subServices |-> <<"s3Requests", "s3Transfer">>]
    [] code = "s3Requests" ->
         [serviceCode |-> "s3Requests", version |-> "0.2", estimateFor |-> "",
          templates |-> <<Template("", <<Card(SubComps)>>)>>,
          subServices |-> <<>>]
    [] code = "s3Transfer" ->
         [serviceCode |-> "s3Transfer", version |-> "", estimateFor |-> "transfer",
          templates |-> <<>>,
          subServices |-> <<>>]
    [] code = "pricedService" ->
         [serviceCode |-> "pricedService", version |-> "1.0", estimateFor |-> "",
          templates |->
            <<Template("main",
                <<MathCard(PricedComps, NoCond, PricedMaths),
                  Card(AltComps),
                  MathCard(<<>>,
                           And(<<Exists("s3", "premium"),
                                 Or(<<Exists("s3", "perUnit"), Exists("tier", "perUnit")>>)>>),
                           PremiumMaths)>>),
              Template("alternative", <<MathCard(<<>>, NoCond, AltMaths)>>)>>,
          subServices |-> <<"pricedSub", "s3Transfer">>]
    [] code = "pricedSub" ->
         [serviceCode |-> "pricedSub", version |-> "1.0", estimateFor |-> "",
          templates |-> <<Template("sub", <<MathCard(PricedSubComps, NoCond, PricedSubMaths)>>)>>,
          subServices |-> <<>>]
    [] code = "storeService" ->
         [serviceCode |-> "storeService", version |-> "1.0", estimateFor |-> "",
          templates |-> <<Template("store", <<MathCard(StoreComps, NoCond, StoreMaths)>>)>>,
          subServices |-> <<>>]
    [] code = "replaceService" ->
         [serviceCode |-> "replaceService", version |-> "1.0", estimateFor |-> "",
          templates |-> <<Template("replace", <<Card(ReplaceComps)>>)>>,
          subServices |-> <<>>]
    [] code = "twoTableService" ->
         [serviceCode |-> "twoTableService", version |-> "1.0", estimateFor |-> "",
          templates |-> <<Template("two", <<Card(TwoTableComps)>>)>>,
          subServices |-> <<>>]
    [] code = "tierService" ->
         [serviceCode |-> "tierService", version |-> "2.0", estimateFor |-> "",
          templates |-> <<Template("tierTemplate", <<Card(TierComps)>>)>>,
          subServices |-> <<>>]
    [] OTHER ->
         [serviceCode |-> code, version |-> "", estimateFor |-> "",
          templates |-> <<Template("", <<>>)>>,
          subServices |-> <<>>]

\* ------------------------------------------------------- create_estimate

MaxServices == 2
TruncLen == 200

\* The user's calculationComponents: NoCC is the omitted argument.
NoCC == [absent |-> TRUE, map |-> EmptyMap]
CC(m) == [absent |-> FALSE, map |-> m]

Svc(code, region, regionName, name, monthly, upfront, cc, templateId, group) ==
  [serviceCode |-> code, region |-> region, regionName |-> regionName,
   serviceName |-> name, description |-> "", monthlyCost |-> monthly,
   upfrontCost |-> upfront, configSummary |-> "", calculationComponents |-> cc,
   templateId |-> templateId, group |-> group]

\* The services a caller passes (zod has already filled the defaults: region
\* "us-east-1", monthlyCost 0 and upfrontCost 0 when omitted).
ServicePool ==
  {Svc("amazonS3", "us-east-1", "", "Amazon S3", 0, 0,
       CC([k \in {"storageClass"} |-> Bare(Str("S3 Glacier"))]), "", "storage"),
   Svc("amazonS3", "eu-west-1", "", "S3 archive", 5, 3,
       CC([k \in {"storageClass", "dataSize"} |->
             IF k = "storageClass" THEN Wrapped(Str("S3 Glacier"), "GB")
             ELSE Wrapped(Num("500"), "TB")]), "userTemplate", "storage"),
   Svc("tierService", "us-east-1", "", "Tiered", 5, 0,
       CC([k \in {"tier"} |-> Bare(Str("1"))]), "", ""),
   Svc("emptyService", "us-east-1", "", "Empty", 5, 0, NoCC, "", "compute"),
   Svc("emptyService", "ap-test-9", "Custom Region", "Other", 0, 3,
       CC([k \in {"anything"} |-> Bare(Num("1"))]), "", ""),
   Svc("emptyService", "us-east-1", "", "Inherited", 5, 0, NoCC, "", "constructor")}

\* The sums of the priceDisplay values the evaluator collects (set by the remote
\* definitions and price tables).
PricedSums == {[monthly |-> 7, upfront |-> 2]}

Text(id, len) == [id |-> id, len |-> len]
\* text.substring(0, n)
Substring(text, n) == [id |-> text.id, len |-> Min(text.len, n)]

\* A response of the save store.  parses: the text is JSON; statusCode, hasBody
\* and savedKey describe the parsed text and its parsed `body`.
Resp(status, text, parses, statusCode, hasBody, savedKey) ==
  [status |-> status, text |-> text, parses |-> parses, statusCode |-> statusCode,
   hasBody |-> hasBody, savedKey |-> savedKey]

SaveResponses ==
  {Resp(200, Text("created", 60), TRUE, 201, TRUE, "abc-123"),
   Resp(200, Text("refused", 60), TRUE, 500, TRUE, "abc-123"),
   Resp(200, Text("keyless", 40), TRUE, 201, TRUE, ""),
   Resp(200, Text("html", 30), FALSE, 0, FALSE, ""),
   Resp(500, Text("trace", 250), FALSE, 0, FALSE, ""),
   Resp(400, Text("bad component", 40), TRUE, 400, FALSE, "")}

\* resp.ok
Ok(resp) == resp.status >= 200 /\ resp.status <= 299

NoResult == [null |-> TRUE, monthly |-> 0, upfront |-> 0, calculationComponents |-> EmptyMap]

Max(a, b) == IF a >= b THEN a ELSE b

\* The key regions[regionName] of the evaluator:
\* REGION_NAMES[region] || "US East (N. Virginia)".
EvaluatorRegionName(region) ==
  IF region \in DOMAIN REGION_NAMES THEN REGION_NAMES[region] ELSE "US East (N. Virginia)"

\* calculateServiceCost: fetched is the outcome of its own GET of the definition,
\* priced the sums its evaluation collects.
calculateServiceCost(serviceCode, region, userInputs, fetched, priced) ==
  IF ~fetched THEN NoResult
  ELSE [null |-> FALSE,
        monthly |-> Max(0, priced.monthly),
        upfront |-> Max(0, priced.upfront),
        calculationComponents |->
          buildCalcComponents(extractInputs(ServiceDef(serviceCode).templates), userInputs)]

\* One record of entry.subServices; subOk is the outcome of the GET of its definition.
SubEntry(subCode, region, subOk) ==
  LET subDef == ServiceDef(subCode)
  IN IF subOk
     THEN [serviceCode |-> subCode, region |-> region,
           estimateFor |-> IF subDef.estimateFor # "" THEN subDef.estimateFor ELSE subCode,
           version |-> IF subDef.version # "" THEN subDef.version ELSE "0.0.1",
           calculationComponents |-> buildCalcComponents(extractInputs(subDef.templates), EmptyMap),
           serviceCost |-> [monthly |-> 0, upfront |-> 0]]
     ELSE [serviceCode |-> subCode, region |-> region, estimateFor |-> subCode,
           version |-> "0.0.1", calculationComponents |-> EmptyMap,
           serviceCost |-> [monthly |-> 0, upfront |-> 0]]

\* The catch branch: cc[k] = v is already {value}? v : {value: v}
WrapUserComponents(cc) ==
  IF cc.absent THEN EmptyMap
  ELSE [k \in DOMAIN cc.map |->
          IF cc.map[k].w THEN cc.map[k] ELSE Wrapped(cc.map[k].val, "")]

\* svc.calculationComponents || {}
OrEmpty(cc) == IF cc.absent THEN EmptyMap ELSE cc.map

\* The evaluator called for every service.
AutoCalculateAlways(svc) == TRUE

\* if (monthlyCost === 0): the evaluator is called.
AutoCalculate(svc) == svc.monthlyCost = 0

\* The auto-calculation overwriting a supplied upfront cost.
ServiceCostUpfrontOverwritten(svc, calcResult) ==
  IF svc.monthlyCost = 0 /\ ~calcResult.null
  THEN [monthly |-> calcResult.monthly, upfront |-> calcResult.upfront]
  ELSE [monthly |-> svc.monthlyCost, upfront |-> svc.upfrontCost]

\* monthlyCost / upfrontCost after the auto-calculation; calcResult is consulted
\* only when svc.monthlyCost is 0.
ServiceCost(svc, calcResult) ==
  IF svc.monthlyCost = 0 /\ ~calcResult.null
  THEN [monthly |-> calcResult.monthly,
        upfront |-> IF svc.upfrontCost # 0 THEN svc.upfrontCost ELSE calcResult.upfront]
  ELSE [monthly |-> svc.monthlyCost, upfront |-> svc.upfrontCost]

\* The entry whose sub-services are built with the user's inputs, as the
\* evaluator builds them.
BuildEntryUserInputsInSubs(svc, key, defOk, subOk, calcResult) ==
  LET def == ServiceDef(svc.serviceCode)
      inputs == extractInputs(def.templates)
      firstTemplate == IF Len(def.templates) > 0 THEN def.templates[1].id ELSE ""
  IN [key |-> key,
      version |-> IF defOk /\ def.version # "" THEN def.version ELSE "0.0.1",
      serviceCode |-> svc.serviceCode,
      estimateFor |-> IF ~defOk THEN svc.serviceCode
                      ELSE IF def.estimateFor # "" THEN def.estimateFor ELSE def.serviceCode,
      region |-> svc.region,
      description |-> svc.description,
      calculationComponents |->
        IF defOk THEN buildCalcComponents(inputs, OrEmpty(svc.calculationComponents))
        ELSE WrapUserComponents(svc.calculationComponents),
      serviceCost |-> ServiceCost(svc, calcResult),
      serviceName |-> svc.serviceName,
      regionName |-> IF svc.regionName # "" THEN svc.regionName
                     ELSE IF svc.region \in DOMAIN REGION_NAMES THEN REGION_NAMES[svc.region]
                     ELSE svc.region,
      configSummary |-> svc.configSummary,
      templateId |-> IF svc.templateId # "" THEN svc.templateId
                     ELSE IF defOk THEN firstTemplate ELSE "",
      subServices |->
        IF defOk
        THEN [i \in 1..Len(def.subServices) |->
                IF subOk[i]
                THEN [SubEntry(def.subServices[i], svc.region, TRUE) EXCEPT
                        !.calculationComponents =
                          buildCalcComponents(
                            extractInputs(ServiceDef(def.subServices[i]).templates),
                            OrEmpty(svc.calculationComponents))]
                ELSE SubEntry(def.subServices[i], svc.region, FALSE)]
        ELSE <<>>]

\* The ServiceEntry of one loop iteration.  defOk and subOk are the outcomes of
\* the GETs of the definition and of each sub-service definition.
BuildEntry(svc, key, defOk, subOk, calcResult) ==
  LET def == ServiceDef(svc.serviceCode)
      inputs == extractInputs(def.templates)
      firstTemplate == IF Len(def.templates) > 0 THEN def.templates[1].id ELSE ""
  IN [key |-> key,
      version |-> IF defOk /\ def.version # "" THEN def.version ELSE "0.0.1",
      serviceCode |-> svc.serviceCode,
      estimateFor |-> IF ~defOk THEN svc.serviceCode
                      ELSE IF def.estimateFor # "" THEN def.estimateFor ELSE def.serviceCode,
      region |-> svc.region,
      description |-> svc.description,
      calculationComponents |->
        IF defOk THEN buildCalcComponents(inputs, OrEmpty(svc.calculationComponents))
        ELSE WrapUserComponents(svc.calculationComponents),
      serviceCost |-> ServiceCost(svc, calcResult),
      serviceName |-> svc.serviceName,
      regionName |-> IF svc.regionName # "" THEN svc.regionName
                     ELSE IF svc.region \in DOMAIN REGION_NAMES THEN REGION_NAMES[svc.region]
                     ELSE svc.region,
      configSummary |-> svc.configSummary,
      templateId |-> IF svc.templateId # "" THEN svc.templateId
                     ELSE IF defOk THEN firstTemplate ELSE "",
      subServices |->
        IF defOk
        THEN [i \in 1..Len(def.subServices) |-> SubEntry(def.subServices[i], svc.region, subOk[i])]
        ELSE <<>>]

\* groupMap is a plain object: for these names groupMap[name] is a member
\* inherited from Object.prototype (an excerpt), truthy and without push.
InheritedNames == {"constructor", "toString", "__proto__"}

\* groupMap[svc.group].push(key) throws a TypeError.
PushThrows(name) == name \in InheritedNames

\* Every service put into a group of its own.
AddToGroupAlwaysNew(groups, name, key) ==
  IF name = "" THEN groups
  ELSE Append(groups, [name |-> name, services |-> <<key>>])

\* groupMap[svc.group].push(key), creating the list on first use.
AddToGroup(groups, name, key) ==
  IF name = "" THEN groups
  ELSE IF \E i \in 1..Len(groups) : groups[i].name = name
  THEN [i \in 1..Len(groups) |->
          IF groups[i].name = name
          THEN [groups[i] EXCEPT !.services = Append(@, key)]
          ELSE groups[i]]
  ELSE Append(groups, [name |-> name, services |-> <<key>>])

\* The payload with the monthly total written to both totals.
PayloadMonthlyTwice(svcs, groups, monthly, upfront) ==
  [services |-> svcs,
   groups |-> groups,
   groupSubtotal |-> [monthly |-> monthly, upfront |-> upfront],
   totalCost |-> [monthly |-> monthly, upfront |-> monthly]]

\* The payload handed to JSON.stringify.
Payload(svcs, groups, monthly, upfront) ==
  [services |-> svcs,
   groups |-> groups,
   groupSubtotal |-> [monthly |-> monthly, upfront |-> upfront],
   totalCost |-> [monthly |-> monthly, upfront |-> upfront]]

\* The fallback: calculationComponents = {} in every service and sub-service.
StripEntry(e) ==
  [e EXCEPT !.calculationComponents = EmptyMap,
            !.subServices = [i \in 1..Len(e.subServices) |->
                               [e.subServices[i] EXCEPT !.calculationComponents = EmptyMap]]]

\* The fallback that forgets the sub-services.
StripTopLevelOnly(doc) ==
  [doc EXCEPT !.services =
     [i \in 1..Len(doc.services) |->
        [doc.services[i] EXCEPT !.calculationComponents = EmptyMap]]]

Strip(doc) ==
  [doc EXCEPT !.services = [i \in 1..Len(doc.services) |-> StripEntry(doc.services[i])]]

\* strippedServices naming every service.
RECURSIVE StrippedNamesAll(_)
StrippedNamesAll(svcs) ==
  IF svcs = <<>> THEN <<>>
  ELSE <<Head(svcs).serviceName>> \o StrippedNamesAll(Tail(svcs))

\* strippedServices: the names of the services that had components.
RECURSIVE StrippedNames(_)
StrippedNames(svcs) ==
  IF svcs = <<>> THEN <<>>
  ELSE (IF DOMAIN Head(svcs).calculationComponents # {}
        THEN <<Head(svcs).serviceName>> ELSE <<>>)
       \o StrippedNames(Tail(svcs))

NoText == Text("", 0)
NoOutcome ==
  [kind |-> "none", link |-> "", warned |-> FALSE, affected |-> <<>>,
   rejectedStatus |-> 0, rejectedBody |-> NoText,
   firstStatus |-> 0, firstBody |-> NoText, retryStatus |-> 0, retryBody |-> NoText]

ShareLink(savedKey) == "https://calculator.aws/#/estimate?id=" \o savedKey

\* The parse that accepts any statusCode.
ParseSavedAnyStatus(resp, base) ==
  IF ~resp.parses THEN [base EXCEPT !.kind = "SyntaxError"]
  ELSE IF ~resp.hasBody THEN [base EXCEPT !.kind = "UnexpectedResponse"]
  ELSE IF resp.savedKey = "" THEN [base EXCEPT !.kind = "NoSavedKey"]
  ELSE [base EXCEPT !.kind = "link", !.link = ShareLink(resp.savedKey)]

\* Lines 835-845: parse the accepted response, demand statusCode 201, a body
\* and a savedKey.  base carries the warnings collected so far.
ParseSaved(resp, base) ==
  IF ~resp.parses THEN [base EXCEPT !.kind = "SyntaxError"]
  ELSE IF resp.statusCode # 201 \/ ~resp.hasBody
  THEN [base EXCEPT !.kind = "UnexpectedResponse"]
  ELSE IF resp.savedKey = "" THEN [base EXCEPT !.kind = "NoSavedKey"]
  ELSE [base EXCEPT !.kind = "link", !.link = ShareLink(resp.savedKey)]

\* The warnings of a successful retry.
Warned(first, names) ==
  [NoOutcome EXCEPT !.warned = TRUE, !.affected = names,
                    !.rejectedStatus = first.status,
                    !.rejectedBody = Substring(first.text, TruncLen)]

SaveError(first, retry) ==
  [NoOutcome EXCEPT !.kind = "SaveError",
                    !.firstStatus = first.status, !.firstBody = first.text,
                    !.retryStatus = retry.status, !.retryBody = retry.text]

\* groupsObj: one "group-{uuid}" entry per name of groupMap, in its order.
GroupsObj(groups) ==
  [i \in 1..Len(groups) |->
     [id |-> <<"group", i>>, name |-> groups[i].name, services |-> groups[i].services]]

VARIABLES pc, services, svcMap, groupMap, totalMonthly, totalUpfront, log,
          posts, resps, outcome

cvars == <<pc, services, svcMap, groupMap, totalMonthly, totalUpfront, log,
           posts, resps, outcome>>

\* The state of the normalizer applied on its own (see SpecNorm).
VARIABLES nPhase, nField, nRaw, nRes, nInputs, nUser, nOut

nvars == <<nPhase, nField, nRaw, nRes, nInputs, nUser, nOut>>

\* The process-wide caches, the GETs issued so far and the tool invocations in
\* flight (see SpecCache).
VARIABLES manifestCache, pricingCache, fetches, calls, pricingWrites

kvars == <<manifestCache, pricingCache, fetches, calls, pricingWrites>>

\* The pricing engine's functions and load_estimate applied on their own (see
\* SpecEval): which function ran, its arguments and its result.  eArgs and
\* eOut hold the arguments and the result of the functions that have no
\* variables of their own.
VARIABLES ePhase, vSubType, vRaw, vOut, tQty, tTiers, tCharged, tOut, iId, iArg, iOut,
          cArgs, cOut, eArgs, eOut

evars == <<ePhase, vSubType, vRaw, vOut, tQty, tTiers, tCharged, tOut, iId, iArg, iOut,
           cArgs, cOut, eArgs, eOut>>

vars == <<cvars, nvars, kvars, evars>>

CreateInit ==
  /\ pc = "loop"
  /\ services = <<>>
  /\ svcMap = <<>>
  /\ groupMap = <<>>
  /\ totalMonthly = 0
  /\ totalUpfront = 0
  /\ log = <<>>
  /\ posts = <<>>
  /\ resps = <<>>
  /\ outcome = NoOutcome

\* One iteration of `for (const svc of services)`: the GETs of the definition
\* and of its sub-services, the auto-calculation, the entry, the totals, the group.
AddService ==
  /\ pc = "loop"
  /\ Len(services) < MaxServices
  /\ \E svc \in ServicePool, defOk \in BOOLEAN, calcDefOk \in BOOLEAN, priced \in PricedSums :
       \E subOk \in [1..Len(ServiceDef(svc.serviceCode).subServices) -> BOOLEAN] :
         LET key == <<svc.serviceCode, Len(services) + 1>>
             invoked == AutoCalculate(svc)
             calcResult ==
               IF invoked
               THEN calculateServiceCost(svc.serviceCode, svc.region,
                                         OrEmpty(svc.calculationComponents), calcDefOk, priced)
               ELSE NoResult
             entry == BuildEntry(svc, key, defOk, subOk, calcResult)
         IN \* a GET that is never issued has no outcome to choose
            /\ ~defOk => \A i \in DOMAIN subOk : ~subOk[i]
            /\ ~invoked => ~calcDefOk
            /\ services' = Append(services, svc)
            /\ log' = Append(log, [defOk |-> defOk, subOk |-> subOk,
                                    invoked |-> invoked, result |-> calcResult,
                                    pricedRegion |->
                                      IF invoked /\ calcDefOk
                                      THEN EvaluatorRegionName(svc.region) ELSE ""])
            /\ svcMap' = Append(svcMap, entry)
            /\ totalMonthly' = totalMonthly + entry.serviceCost.monthly
            /\ totalUpfront' = totalUpfront + entry.serviceCost.upfront
            /\ IF PushThrows(svc.group)
               THEN /\ groupMap' = groupMap
                    /\ pc' = "threw"
                    /\ outcome' = [NoOutcome EXCEPT !.kind = "TypeError"]
               ELSE /\ groupMap' = AddToGroup(groupMap, svc.group, key)
                    /\ pc' = pc
                    /\ outcome' = outcome
  /\ UNCHANGED <<posts, resps>>
  /\ UNCHANGED nvars
  /\ UNCHANGED kvars
  /\ UNCHANGED evars

\* After the loop: assemble the payload, POST it, read the response.  A 2xx
\* response is parsed at once; any other status leads to the fallback.
Save ==
  /\ pc = "loop"
  /\ \E resp \in SaveResponses :
       /\ posts' = <<Payload(svcMap, GroupsObj(groupMap), totalMonthly, totalUpfront)>>
       /\ resps' = <<resp>>
       /\ IF Ok(resp)
          THEN /\ outcome' = ParseSaved(resp, NoOutcome)
               /\ pc' = "done"
          ELSE /\ outcome' = outcome
               /\ pc' = "retry"
  /\ UNCHANGED <<services, svcMap, groupMap, totalMonthly, totalUpfront, log>>
  /\ UNCHANGED nvars
  /\ UNCHANGED kvars
  /\ UNCHANGED evars

\* The fallback: strip the payload in place (its services are the entries of
\* svcMap), POST it again, read the response.
Retry ==
  /\ pc = "retry"
  /\ \E retryResp \in SaveResponses :
       LET stripped == Strip(posts[1])
           names == StrippedNames(posts[1].services)
       IN /\ posts' = Append(posts, stripped)
          /\ resps' = Append(resps, retryResp)
          /\ svcMap' = stripped.services
          /\ outcome' = IF ~Ok(retryResp) THEN SaveError(resps[1], retryResp)
                        ELSE ParseSaved(retryResp, Warned(resps[1], names))
  /\ pc' = "done"
  /\ UNCHANGED <<services, groupMap, totalMonthly, totalUpfront, log>>
  /\ UNCHANGED nvars
  /\ UNCHANGED kvars
  /\ UNCHANGED evars

\* -------------------------------------------- caches and concurrent calls

MaxCalls == 2

\* The services the concurrent calls ask for (definitions without sub-services,
\* one with a price table and one without) and their regions.
CacheCodes == {"s3Requests", "emptyService"}
CacheRegions == {"us-east-1"}

ManifestUrl == [kind |-> "manifest", name |-> ""]
\* API.serviceDef(code)
DefUrl(code) == [kind |-> "def", name |-> code]
\* mappingUrls[name] || API.pricing(name)
PricingUrl(name) == [kind |-> "pricing", name |-> name]

\* What a call waits for: the manifest, a definition, or the pricing table of
\* `${name}__${regionName}`.
ManifestKey == [kind |-> "manifest", name |-> "", regionName |-> ""]
DefKey(code) == [kind |-> "def", name |-> code, regionName |-> ""]
PricingKey(name, regionName) == [kind |-> "pricing", name |-> name, regionName |-> regionName]

\* walkForMappings: the mappingDefinitionName of every component, in walk order.
RECURSIVE walkForMappings(_)
walkForMappings(comps) ==
  IF comps = <<>> THEN <<>>
  ELSE (IF Head(comps).mappingDefinitionName # ""
        THEN <<Head(comps).mappingDefinitionName>> ELSE <<>>)
       \o walkForMappings(Head(comps).components)
       \o walkForMappings(Tail(comps))

RECURSIVE CardMappings(_)
CardMappings(cards) ==
  IF cards = <<>> THEN <<>>
  ELSE walkForMappings(Head(cards).components) \o CardMappings(Tail(cards))

RECURSIVE TemplateMappings(_)
TemplateMappings(templates) ==
  IF templates = <<>> THEN <<>>
  ELSE CardMappings(Head(templates).cards) \o TemplateMappings(Tail(templates))

\* [...mappingDefs]: a Set keeps the first insertion of each name.
RECURSIVE Distinct(_)
Distinct(names) ==
  IF names = <<>> THEN <<>>
  ELSE LET front == Distinct(SubSeq(names, 1, Len(names) - 1))
           last == names[Len(names)]
       IN IF \E i \in 1..Len(front) : front[i] = last THEN front ELSE Append(front, last)

MappingDefs(def) == Distinct(TemplateMappings(def.templates))

\* Every key `${name}__${regionName}` the calls can ask for.
PricingKeys ==
  LET names == UNION {{MappingDefs(ServiceDef(c))[i] : i \in 1..Len(MappingDefs(ServiceDef(c)))} :
                        c \in CacheCodes}
  IN {PricingKey(n, EvaluatorRegionName(r)) : n \in names, r \in CacheRegions}

\* fetchJSON(url): every call issues a GET; the record is the request in flight.
fetchJSON(fs, url) == Append(fs, [url |-> url, state |-> "pending"])

\* getManifest issuing a GET on every call.
GetManifestNoCheck(cache, fs) ==
  [cache |-> Len(fs) + 1, fetches |-> fetchJSON(fs, ManifestUrl), promise |-> Len(fs) + 1]

\* getManifest: the slot holds the promise of a fetch (its index), 0 is null.
getManifest(cache, fs) ==
  IF cache = 0
  THEN [cache |-> Len(fs) + 1, fetches |-> fetchJSON(fs, ManifestUrl), promise |-> Len(fs) + 1]
  ELSE [cache |-> cache, fetches |-> fs, promise |-> cache]

\* The calls are numbered in the order the server receives them.
Arrives(cs, p) == cs[p].pc = "idle" /\ \A q \in 1..(p - 1) : cs[q].pc # "idle"

\* A tool invocation: tasks are the promises it awaits, results what it observed.
IdleCall ==
  [tool |-> "", pc |-> "idle", code |-> "", regionName |-> "", auto |-> FALSE,
   tasks |-> {}, results |-> {}]

Task(key, fetch, rivals) == [key |-> key, fetch |-> fetch, rivals |-> rivals]
Result(task, kind) ==
  [key |-> task.key, kind |-> kind, fetch |-> task.fetch, rivals |-> task.rivals]

\* The calls that are awaiting key k.
Awaiting(cs, k) == {q \in DOMAIN cs : \E t \in cs[q].tasks : t.key = k}

\* The synchronous part of the per-name tasks of fetchPricingForService: a hit
\* is a result at once, a miss issues the GET of the table.
RECURSIVE StartPricing(_, _, _, _, _)
StartPricing(names, regionName, cache, fs, cs) ==
  IF names = <<>> THEN [fetches |-> fs, tasks |-> {}, results |-> {}]
  ELSE LET key == PricingKey(Head(names), regionName)
           hit == cache[key] # 0
           rest == StartPricing(Tail(names), regionName, cache,
                                IF hit THEN fs ELSE fetchJSON(fs, PricingUrl(Head(names))), cs)
       IN IF hit
          THEN [rest EXCEPT !.results = @ \cup {Result(Task(key, cache[key], {}), "hit")}]
          ELSE [rest EXCEPT !.tasks = @ \cup {Task(key, Len(fs) + 1, Awaiting(cs, key))}]

CacheIdle ==
  /\ manifestCache = 0
  /\ pricingCache = [k \in PricingKeys |-> 0]
  /\ fetches = <<>>
  /\ calls = [p \in 1..MaxCalls |-> IdleCall]
  /\ pricingWrites = [k \in PricingKeys |-> 0]

Settled(f) == fetches[f].state # "pending"

\* A new request or a network event is handled only when every continuation of
\* an already settled promise has run (handlers run to their next await).
MicrotasksDrained == \A p \in DOMAIN calls : \A t \in calls[p].tasks : ~Settled(t.fetch)

\* search_services up to `await getManifest()`.
SearchServices(p) ==
  /\ Arrives(calls, p)
  /\ MicrotasksDrained
  /\ LET g == getManifest(manifestCache, fetches)
     IN /\ manifestCache' = g.cache
        /\ fetches' = g.fetches
        /\ calls' = [calls EXCEPT ![p] =
                       [@ EXCEPT !.tool = "search_services", !.pc = "awaitManifest",
                                 !.tasks = {Task(ManifestKey, g.promise,
                                                 Awaiting(calls, ManifestKey))}]]
  /\ UNCHANGED <<pricingCache, pricingWrites>>
  /\ UNCHANGED <<cvars, nvars, evars>>

\* The manifest promise settles for this call: the matches are returned, or the
\* rejection is thrown.
SearchResume(p) ==
  /\ calls[p].pc = "awaitManifest"
  /\ \E t \in calls[p].tasks :
       /\ Settled(t.fetch)
       /\ calls' = [calls EXCEPT ![p] =
                      [@ EXCEPT !.pc = "done", !.tasks = {},
                                !.results = {Result(t, fetches[t.fetch].state)}]]
  /\ UNCHANGED <<manifestCache, pricingCache, fetches, pricingWrites>>
  /\ UNCHANGED <<cvars, nvars, evars>>

\* A GET in flight ends: the response is 2xx with a document, or fetchJSON
\* throws.  The catch handler of a failed manifest fetch sets the slot to null.
Respond(f) ==
  /\ fetches[f].state = "pending"
  /\ MicrotasksDrained
  /\ \E ok \in BOOLEAN :
       /\ fetches' = [fetches EXCEPT ![f].state = IF ok THEN "ok" ELSE "failed"]
       /\ manifestCache' = IF ~ok /\ fetches[f].url = ManifestUrl THEN 0 ELSE manifestCache
  /\ UNCHANGED <<pricingCache, calls, pricingWrites>>
  /\ UNCHANGED <<cvars, nvars, evars>>

\* create_estimate for one service, up to the GET of its definition (line 674).
\* auto: monthlyCost is 0 or omitted.
EstimateStart(p) ==
  /\ Arrives(calls, p)
  /\ MicrotasksDrained
  /\ \E code \in CacheCodes, region \in CacheRegions, auto \in BOOLEAN :
       /\ fetches' = fetchJSON(fetches, DefUrl(code))
       /\ calls' = [calls EXCEPT ![p] =
                      [@ EXCEPT !.tool = "create_estimate", !.pc = "awaitDef",
                                !.code = code, !.regionName = EvaluatorRegionName(region),
                                !.auto = auto,
                                !.tasks = {Task(DefKey(code), Len(fetches) + 1, {})}]]
  /\ UNCHANGED <<manifestCache, pricingCache, pricingWrites>>
  /\ UNCHANGED <<cvars, nvars, evars>>

\* The definition arrives or the catch branch runs; then, when the cost is
\* auto-calculated, calculateServiceCost issues its own GET of the definition
\* (line 439).
EstimateDefResume(p) ==
  /\ calls[p].pc = "awaitDef"
  /\ \E t \in calls[p].tasks :
       /\ Settled(t.fetch)
       /\ IF calls[p].auto
          THEN /\ fetches' = fetchJSON(fetches, DefUrl(calls[p].code))
               /\ calls' = [calls EXCEPT ![p] =
                              [@ EXCEPT !.pc = "awaitCalcDef",
                                        !.tasks = {Task(DefKey(calls[p].code), Len(fetches) + 1, {})},
                                        !.results = @ \cup {Result(t, fetches[t.fetch].state)}]]
          ELSE /\ fetches' = fetches
               /\ calls' = [calls EXCEPT ![p] =
                              [@ EXCEPT !.pc = "done", !.tasks = {},
                                        !.results = @ \cup {Result(t, fetches[t.fetch].state)}]]
  /\ UNCHANGED <<manifestCache, pricingCache, pricingWrites>>
  /\ UNCHANGED <<cvars, nvars, evars>>

\* calculateServiceCost after its GET: null on failure; otherwise
\* fetchPricingForService starts one task per mapping name.
EstimateCalcResume(p) ==
  /\ calls[p].pc = "awaitCalcDef"
  /\ \E t \in calls[p].tasks :
       /\ Settled(t.fetch)
       /\ IF fetches[t.fetch].state = "failed"
          THEN /\ fetches' = fetches
               /\ calls' = [calls EXCEPT ![p] =
                              [@ EXCEPT !.pc = "done", !.tasks = {},
                                        !.results = @ \cup {Result(t, "failed")}]]
          ELSE LET started == StartPricing(MappingDefs(ServiceDef(calls[p].code)),
                                           calls[p].regionName, pricingCache, fetches,
                                           [calls EXCEPT ![p].tasks = {}])
               IN /\ fetches' = started.fetches
                  /\ calls' = [calls EXCEPT ![p] =
                                 [@ EXCEPT !.pc = IF started.tasks = {} THEN "done"
                                                  ELSE "awaitPricing",
                                           !.tasks = started.tasks,
                                           !.results = @ \cup {Result(t, "ok")}
                                                         \cup started.results]]
  /\ UNCHANGED <<manifestCache, pricingCache, pricingWrites>>
  /\ UNCHANGED <<cvars, nvars, evars>>

\* One per-name task continues after `await fetchJSON(url)`: the table is
\* written to pricingCache[cacheKey] (line 252), or the catch gives {}.
EstimatePricingResume(p) ==
  /\ calls[p].pc = "awaitPricing"
  /\ \E t \in calls[p].tasks :
       /\ Settled(t.fetch)
       /\ LET ok == fetches[t.fetch].state = "ok"
          IN /\ pricingCache' = IF ok THEN [pricingCache EXCEPT ![t.key] = t.fetch]
                                ELSE pricingCache
             /\ pricingWrites' = IF ok THEN [pricingWrites EXCEPT ![t.key] = @ + 1]
                                 ELSE pricingWrites
             /\ calls' = [calls EXCEPT ![p] =
                            [@ EXCEPT !.pc = IF calls[p].tasks = {t} THEN "done" ELSE "awaitPricing",
                                      !.tasks = @ \ {t},
                                      !.results = @ \cup {Result(t, fetches[t.fetch].state)}]]
  /\ UNCHANGED <<manifestCache, fetches>>
  /\ UNCHANGED <<cvars, nvars, evars>>

CacheNext ==
  \/ \E p \in 1..MaxCalls : SearchServices(p)
  \/ \E p \in 1..MaxCalls : SearchResume(p)
  \/ \E p \in 1..MaxCalls : EstimateStart(p)
  \/ \E p \in 1..MaxCalls : EstimateDefResume(p)
  \/ \E p \in 1..MaxCalls : EstimateCalcResume(p)
  \/ \E p \in 1..MaxCalls : EstimatePricingResume(p)
  \/ \E f \in 1..Len(fetches) : Respond(f)

\* ------------------------------------------------------ the pricing engine

\* A JavaScript number is modelled exactly, as a reduced fraction n/d, d > 0.
RECURSIVE Gcd(_, _)
Gcd(a, b) == IF b = 0 THEN a ELSE Gcd(b, a % b)

Abs(x) == IF x < 0 THEN -x ELSE x

Rat(n, d) ==
  LET g == Gcd(Abs(n), d)
  IN [n |-> IF n >= 0 THEN n \div g ELSE -((-n) \div g), d |-> d \div g]

Zero == Rat(0, 1)
Whole(n) == Rat(n, 1)
RMul(a, b) == Rat(a.n * b.n, a.d * b.d)
RAdd(a, b) == Rat(a.n * b.d + b.n * a.d, a.d * b.d)
RSub(a, b) == Rat(a.n * b.d - b.n * a.d, a.d * b.d)
RLe(a, b) == a.n * b.d <= b.n * a.d
RLt(a, b) == a.n * b.d < b.n * a.d
RMin(a, b) == IF RLe(a, b) THEN a ELSE b
RMax(a, b) == IF RLe(a, b) THEN b ELSE a

DigitChars == "0123456789"
IsDigit(c) == \E i \in 1..10 : SubSeq(DigitChars, i, i) = c
DigitValue(c) == (CHOOSE i \in 1..10 : SubSeq(DigitChars, i, i) = c) - 1

AllDigits(text) == Len(text) > 0 /\ \A i \in 1..Len(text) : IsDigit(SubSeq(text, i, i))

RECURSIVE DigitsValue(_)
DigitsValue(text) ==
  IF text = "" THEN 0
  ELSE 10 * DigitsValue(SubSeq(text, 1, Len(text) - 1)) + DigitValue(SubSeq(text, Len(text), Len(text)))

RECURSIVE Pow10(_)
Pow10(k) == IF k = 0 THEN 1 ELSE 10 * Pow10(k - 1)

NaN == [nan |-> TRUE, val |-> Zero]
Finite(r) == [nan |-> FALSE, val |-> r]

\* The decimal literals -?digits(.digits)? ; any other text is NaN.
UnsignedLiteral(text) ==
  LET dots == {i \in 1..Len(text) : SubSeq(text, i, i) = "."}
  IN IF AllDigits(text) THEN Finite(Whole(DigitsValue(text)))
     ELSE IF Cardinality(dots) = 1
     THEN LET dot == CHOOSE i \in dots : TRUE
              whole == SubSeq(text, 1, dot - 1)
              frac == SubSeq(text, dot + 1, Len(text))
          IN IF AllDigits(whole) /\ AllDigits(frac)
             THEN Finite(RAdd(Whole(DigitsValue(whole)), Rat(DigitsValue(frac), Pow10(Len(frac)))))
             ELSE NaN
     ELSE NaN

\* -u
Negated(u) == IF u.nan THEN NaN ELSE Finite(RSub(Zero, u.val))

\* Number(text): the empty string is 0.
StringToNumber(text) ==
  IF text = "" THEN Finite(Zero)
  ELSE IF SubSeq(text, 1, 1) = "-"
  THEN Negated(UnsignedLiteral(SubSeq(text, 2, Len(text))))
  ELSE UnsignedLiteral(text)

\* Number(x) for a scalar: null is 0, a plain object is NaN.
ToNumber(x) ==
  CASE x.k = "null" -> Finite(Zero)
    [] x.k = "obj" -> NaN
    [] OTHER -> StringToNumber(x.v)

\* n || 0
OrZero(n) == IF n.nan THEN Zero ELSE n.val

\* Number(x) || 0
NumberOrZero(x) == OrZero(ToNumber(x))

FILE_SIZE_TO_GB ==
  [u \in {"KB", "MB", "GB", "TB"} |->
     CASE u = "KB" -> Rat(1, 1024 * 1024) [] u = "MB" -> Rat(1, 1024)
       [] u = "GB" -> Whole(1) [] u = "TB" -> Whole(1024)]

FREQ_TO_MONTH ==
  [u \in {"per second", "per minute", "per hour", "per day", "per week", "per month",
          "per year"} |->
     CASE u = "per second" -> Whole(2592000) [] u = "per minute" -> Whole(43200)
       [] u = "per hour" -> Whole(720) [] u = "per day" -> Whole(30)
       [] u = "per week" -> Rat(30, 7) [] u = "per month" -> Whole(1)
       [] u = "per year" -> Rat(1, 12)]

\* normalizeValue that ignores the unit.
NormalizeValueNoUnit(subType, raw) ==
  IF ~raw.w /\ raw.val = Null THEN Zero ELSE NumberOrZero(raw.val)

normalizeValue(subType, raw) ==
  IF ~raw.w /\ raw.val = Null THEN Zero
  ELSE IF raw.w
  THEN LET v == NumberOrZero(raw.val)
       IN IF subType = "fileSize" /\ raw.unit \in DOMAIN FILE_SIZE_TO_GB
          THEN RMul(v, FILE_SIZE_TO_GB[raw.unit])
          ELSE IF subType = "frequency" /\ raw.unit \in DOMAIN FREQ_TO_MONTH
          THEN RMul(v, FREQ_TO_MONTH[raw.unit])
          ELSE v
  ELSE NumberOrZero(raw.val)

\* The values and units normalizeValue is applied to.
ValuePool ==
  {Null, Num("0"), Num("1"), Num("3"), Num("512"), Num("0.5"), Num("-2"),
   Str("7"), Str(""), Str("S3 Glacier"), Obj("model=reserved;")}
UnitPool == DOMAIN FILE_SIZE_TO_GB \cup DOMAIN FREQ_TO_MONTH \cup {"", "PB"}
SubTypePool == {"fileSize", "frequency", "numericInput", "dropdown", ""}

\* tieredPricingMath. A tier is {start, end, price}, end = -1 for Infinity.
Tier(start, end, price) == [start |-> start, end |-> end, price |-> price]

\* tierEnd - tierStart, Infinity when end is -1.
TierSize(tier) ==
  IF tier.end = -1 THEN [inf |-> TRUE, val |-> Zero]
  ELSE [inf |-> FALSE, val |-> Whole(tier.end - tier.start)]

\* A tier that takes all that remains, whatever its size.
TierQtyNoCap(remaining, tier) == remaining

\* qty = Math.min(remaining, tierSize)
TierQty(remaining, tier) ==
  IF TierSize(tier).inf THEN remaining ELSE RMin(remaining, TierSize(tier).val)

\* The loop over the tiers from the i-th on; charged lists the qty of each
\* tier, 0 for a tier the loop never reached.
RECURSIVE TierWalk(_, _, _)
TierWalk(tiers, i, acc) ==
  IF i > Len(tiers) THEN acc
  ELSE IF RLe(acc.remaining, Zero)
  THEN TierWalk(tiers, i + 1, [acc EXCEPT !.charged = Append(@, Zero)])
  ELSE LET qty == TierQty(acc.remaining, tiers[i])
       IN TierWalk(tiers, i + 1,
            [total |-> RAdd(acc.total, RMul(qty, tiers[i].price)),
             remaining |-> RSub(acc.remaining, qty),
             charged |-> Append(acc.charged, qty)])

\* x is context[comp.inputRefer], tiers is context["__tiers__" + ref].
tieredPricingMath(x, tiers) ==
  TierWalk(tiers, 1, [total |-> Zero, remaining |-> NumberOrZero(x), charged |-> <<>>])


\* --------------------------------------------------- the evaluation context

\* A context slot holds a number or a string; an id outside the domain is
\* undefined.  The "__tiers__<id>" slots are kept apart, in tiers.
NumV(r) == [t |-> "num", r |-> r, s |-> ""]
StrV(text) == [t |-> "str", r |-> Zero, s |-> text]
EmptyCtx == [vals |-> [x \in {} |-> NumV(Zero)], tiers |-> [x \in {} |-> <<>>]]

PutVal(ctx, id, v) ==
  [ctx EXCEPT !.vals = [x \in DOMAIN ctx.vals \cup {id} |-> IF x = id THEN v ELSE ctx.vals[x]]]
PutTiers(ctx, id, ts) ==
  [ctx EXCEPT !.tiers = [x \in DOMAIN ctx.tiers \cup {id} |-> IF x = id THEN ts ELSE ctx.tiers[x]]]

\* Number(context[id]) || 0
CtxNumber(ctx, id) ==
  IF id \notin DOMAIN ctx.vals THEN Zero
  ELSE IF ctx.vals[id].t = "num" THEN ctx.vals[id].r
  ELSE NumberOrZero(Str(ctx.vals[id].s))

RECURSIVE NatToString(_)
NatToString(n) ==
  IF n < 10 THEN SubSeq(DigitChars, n + 1, n + 1)
  ELSE NatToString(n \div 10) \o SubSeq(DigitChars, (n % 10) + 1, (n % 10) + 1)

RECURSIVE PadLeft(_, _)
PadLeft(text, k) == IF Len(text) >= k THEN text ELSE PadLeft("0" \o text, k)

\* String(number): an integer prints its digits, a finite decimal its digits
\* around the point; a fraction with no finite decimal form prints as n/d, a
\* text that no literal of a definition equals (JavaScript prints its nearest
\* double, up to 17 digits).
NumberToString(r) ==
  LET sign == IF r.n < 0 THEN "-" ELSE ""
      a == Abs(r.n)
      places == {k \in 1..6 : Pow10(k) % r.d = 0}
  IN IF r.d = 1 THEN sign \o NatToString(a)
     ELSE IF places # {}
     THEN LET k == CHOOSE x \in places : \A y \in places : x <= y
              scaled == a * (Pow10(k) \div r.d)
          IN sign \o NatToString(scaled \div Pow10(k)) \o "."
                  \o PadLeft(NatToString(scaled % Pow10(k)), k)
     ELSE sign \o NatToString(a) \o "/" \o NatToString(r.d)

\* String(x) of a literal.
ScalarToString(x) ==
  CASE x.k = "null" -> "null"
    [] x.k = "obj" -> "[object Object]"
    [] x.k = "num" -> NumberToString(ToNumber(x).val)
    [] OTHER -> x.v

\* String(context[id])
CtxString(ctx, id) ==
  IF id \notin DOMAIN ctx.vals THEN "undefined"
  ELSE IF ctx.vals[id].t = "num" THEN NumberToString(ctx.vals[id].r)
  ELSE ctx.vals[id].s

\* A price table: metered unit -> price.
NoPrices == [u \in {} |-> Zero]

\* pricingByDef[name] || {}
PriceMapOf(pricingByDef, name) ==
  IF name \in DOMAIN pricingByDef THEN pricingByDef[name] ELSE NoPrices

\* priceMap[unit] ?? 0
PriceOf(priceMap, unit) == IF unit \in DOMAIN priceMap THEN priceMap[unit] ELSE Zero

\* ------------------------------------------------------ resolveAllComponents

\* The components with an id, in the order walkInputDefs assigns them.
RECURSIVE walkInputDefs(_)
walkInputDefs(comps) ==
  IF comps = <<>> THEN <<>>
  ELSE LET c == Head(comps)
       IN (IF c.id # "" THEN <<c>> ELSE <<>>)
          \o walkInputDefs(c.components)
          \o walkInputDefs(Tail(comps))

PricingSubTypes == {"replace", "singlePricePoint", "pricingComboV2", "tieredPricing"}

RECURSIVE walkPricing(_)
walkPricing(comps) ==
  IF comps = <<>> THEN <<>>
  ELSE LET c == Head(comps)
       IN (IF c.type = "pricing" \/ c.subType \in PricingSubTypes THEN <<c>> ELSE <<>>)
          \o walkPricing(c.components)
          \o walkPricing(Tail(comps))

\* The inputSection components of every card of every template, in order.
RECURSIVE CardComps(_)
CardComps(cards) ==
  IF cards = <<>> THEN <<>> ELSE Head(cards).components \o CardComps(Tail(cards))

RECURSIVE TemplateComps(_)
TemplateComps(templates) ==
  IF templates = <<>> THEN <<>>
  ELSE CardComps(Head(templates).cards) \o TemplateComps(Tail(templates))

\* inputDef?.subType || inputDef?.type || "" of inputDefs[id], the last
\* component that has the id.
InputSubType(inputDefs, id) ==
  LET hits == {i \in 1..Len(inputDefs) : inputDefs[i].id = id}
  IN IF hits = {} THEN ""
     ELSE LET c == inputDefs[CHOOSE i \in hits : \A j \in hits : j <= i]
          IN IF c.subType # "" THEN c.subType ELSE c.type

\* The replaceString of the last replacement whose originalString prints as
\* inputVal.
ReplacementLast(replacements, inputVal) ==
  LET hits == {i \in 1..Len(replacements) :
                 ScalarToString(replacements[i].originalString) = inputVal}
  IN IF hits = {} THEN ""
     ELSE replacements[CHOOSE i \in hits : \A j \in hits : j <= i].replaceString

\* The replaceString of the first replacement whose originalString prints as
\* inputVal, "" when there is none.
Replacement(replacements, inputVal) ==
  LET hits == {i \in 1..Len(replacements) :
                 ScalarToString(replacements[i].originalString) = inputVal}
  IN IF hits = {} THEN ""
     ELSE replacements[CHOOSE i \in hits : \A j \in hits : i <= j].replaceString

RECURSIVE ResolveReplaces(_, _)
ResolveReplaces(pricingComps, ctx) ==
  IF pricingComps = <<>> THEN ctx
  ELSE LET c == Head(pricingComps)
           inputVal == IF c.originalId \in DOMAIN ctx.vals THEN CtxString(ctx, c.originalId)
                       ELSE ""
       IN ResolveReplaces(Tail(pricingComps),
            IF c.subType = "replace" /\ c.id # ""
            THEN PutVal(ctx, c.id, StrV(Replacement(c.replacements, inputVal)))
            ELSE ctx)

ResolvedTiers(tiers, priceMap) ==
  [i \in 1..Len(tiers) |->
     Tier(tiers[i].startOfTier, tiers[i].endOfTier, PriceOf(priceMap, tiers[i].meteredUnit))]

RECURSIVE ResolveLookups(_, _, _)
ResolveLookups(pricingComps, pricingByDef, ctx) ==
  IF pricingComps = <<>> THEN ctx
  ELSE LET c == Head(pricingComps)
           priceMap == PriceMapOf(pricingByDef, c.mappingDefinitionName)
           unit == IF c.refers # "" /\ c.refers \in DOMAIN ctx.vals /\ ctx.vals[c.refers].t = "str"
                   THEN ctx.vals[c.refers].s ELSE ""
           isString == c.refers = "" \/ c.refers \notin DOMAIN ctx.vals
                         \/ ctx.vals[c.refers].t = "str"
       IN ResolveLookups(Tail(pricingComps), pricingByDef,
            IF c.id = "" THEN ctx
            ELSE IF c.subType = "singlePricePoint"
            THEN PutVal(ctx, c.id, NumV(PriceOf(priceMap, c.meteredUnit)))
            ELSE IF c.subType = "pricingComboV2"
            THEN PutVal(ctx, c.id, NumV(IF isString THEN PriceOf(priceMap, unit) ELSE Zero))
            ELSE IF c.subType = "tieredPricing"
            THEN PutTiers(ctx, c.id, ResolvedTiers(c.tiers, priceMap))
            ELSE ctx)

resolveAllComponents(def, pricingByDef, calculationComponents) ==
  LET inputDefs == walkInputDefs(TemplateComps(def.templates))
      pricingComps == walkPricing(TemplateComps(def.templates))
      seeded == [EmptyCtx EXCEPT !.vals =
                   [id \in DOMAIN calculationComponents |->
                      NumV(normalizeValue(InputSubType(inputDefs, id),
                                          calculationComponents[id]))]]
  IN ResolveLookups(pricingComps, pricingByDef, ResolveReplaces(pricingComps, seeded))

\* ------------------------------------------------------------- evalDisplayIf

\* Every condition is taken to hold.
evalDisplayIfShown(condition, ctx, pricingByDef) == TRUE

RECURSIVE evalDisplayIf(_, _, _)
evalDisplayIf(condition, ctx, pricingByDef) ==
  CASE condition.op = "" -> TRUE
    [] condition.op = "exists" ->
         IF condition.type = "meteredUnit" /\ condition.mappingDefinitionName # ""
         THEN condition.meteredUnit
                \in DOMAIN PriceMapOf(pricingByDef, condition.mappingDefinitionName)
         ELSE TRUE
    [] condition.op = "and" ->
         \A i \in 1..Len(condition.args) : evalDisplayIf(condition.args[i], ctx, pricingByDef)
    [] condition.op = "or" ->
         \E i \in 1..Len(condition.args) : evalDisplayIf(condition.args[i], ctx, pricingByDef)
    [] condition.op = "not" -> ~evalDisplayIf(condition.args[1], ctx, pricingByDef)
    [] condition.op = "==" ->
         (IF condition.left # "" THEN CtxString(ctx, condition.left)
          ELSE ScalarToString(condition.leftLiteral)) = ScalarToString(condition.right)
    [] OTHER -> TRUE

\* ------------------------------------------------------- executeMathsSection

getVal(ctx, operand) ==
  CASE operand.kind \in {"number", "constant", "value"} -> NumberOrZero(operand.lit)
    [] operand.kind \in {"variableId", "refer"} -> CtxNumber(ctx, operand.ref)
    [] OTHER -> Zero

\* a / b for b # 0
RDiv(a, b) ==
  IF b.n > 0 THEN Rat(a.n * b.d, a.d * b.n) ELSE Rat(-(a.n * b.d), a.d * (-b.n))

FloorDiv(n, d) == IF n >= 0 THEN n \div d ELSE -((-n + d - 1) \div d)
RFloor(r) == Whole(FloorDiv(r.n, r.d))
RCeil(r) == Whole(-FloorDiv(-r.n, r.d))

OperandValues(comp, ctx) == [i \in 1..Len(comp.operands) |-> getVal(ctx, comp.operands[i])]

\* A division by 0 leaves the running result as it is.
BasicStepKeepsOnZero(operation, result, x) ==
  CASE operation = "multiplication" -> RMul(result, x)
    [] operation = "addition" -> RAdd(result, x)
    [] operation = "subtraction" -> RSub(result, x)
    [] operation = "division" -> IF x # Zero THEN RDiv(result, x) ELSE result
    [] OTHER -> result

BasicStep(operation, result, x) ==
  CASE operation = "multiplication" -> RMul(result, x)
    [] operation = "addition" -> RAdd(result, x)
    [] operation = "subtraction" -> RSub(result, x)
    [] operation = "division" -> IF x # Zero THEN RDiv(result, x) ELSE Zero
    [] OTHER -> result

RECURSIVE BasicFold(_, _, _, _)
BasicFold(operation, values, i, result) ==
  IF i > Len(values) THEN result
  ELSE BasicFold(operation, values, i + 1, BasicStep(operation, result, values[i]))

\* operands[0] ?? 0, then the loop over the others.
FoldValues(operation, values) ==
  IF values = <<>> THEN Zero ELSE BasicFold(operation, values, 2, values[1])

basicMaths(comp, ctx) == FoldValues(comp.operation, OperandValues(comp, ctx))

\* Math.max / Math.min of the values.  Every maxMin of the definitions has an
\* operand; with none JavaScript gives -Infinity / Infinity, which no number
\* of this model stands for.
Extreme(operation, range) ==
  IF operation = "Maximum"
  THEN CHOOSE v \in range : \A w \in range : RLe(w, v)
  ELSE CHOOSE v \in range : \A w \in range : RLe(v, w)

Range(values) == {values[i] : i \in 1..Len(values)}

maxMin(comp, ctx) == Extreme(comp.operation, Range(OperandValues(comp, ctx)))

\* n || 1
OrOne(n) == IF n = Zero THEN Whole(1) ELSE n

RoundTo(method, val, factor) ==
  CASE method = "roundUp" -> RMul(RCeil(RDiv(val, factor)), factor)
    [] method = "roundDown" -> RMul(RFloor(RDiv(val, factor)), factor)
    [] OTHER -> val

rounding(comp, ctx) ==
  RoundTo(comp.method,
          getVal(ctx, IF comp.operands = <<>> THEN Operand("null", Null, "")
                      ELSE comp.operands[1]),
          OrOne(NumberOrZero(comp.factor)))

TieredTotal(comp, ctx) ==
  TierWalk(IF comp.tieredPricingRefer \in DOMAIN ctx.tiers
           THEN ctx.tiers[comp.tieredPricingRefer] ELSE <<>>,
           1,
           [total |-> Zero, remaining |-> CtxNumber(ctx, comp.inputRefer),
            charged |-> <<>>]).total

\* No displayIf is ever taken to fail.
SkippedNever(displayIf, ctx, pricingByDef) == FALSE

\* x.displayIf && !evalDisplayIf(x.displayIf, ctx, pricingByDef), of a
\* component of a maths section and of a card.
Skipped(displayIf, ctx, pricingByDef) ==
  displayIf.op # "" /\ ~evalDisplayIf(displayIf, ctx, pricingByDef)

\* One pass of the inner loop: acc is the context and the priceDisplays so far.
ExecuteComp(comp, acc, pricingByDef) ==
  LET st == IF comp.subType # "" THEN comp.subType ELSE comp.type
      ctx == acc.ctx
  IN IF Skipped(comp.displayIf, ctx, pricingByDef) THEN acc
     ELSE IF st \in {"display", "conversionDisplay"} THEN acc
     ELSE IF st = "priceDisplay"
     THEN (IF comp.subTotalRefer # ""
           THEN [acc EXCEPT !.priceDisplays =
                   Append(@, [costType |-> IF comp.costType # "" THEN comp.costType
                                           ELSE "Monthly",
                              value |-> CtxNumber(ctx, comp.subTotalRefer)])]
           ELSE acc)
     ELSE IF comp.id = "" THEN acc
     ELSE IF st = "basicMaths" THEN [acc EXCEPT !.ctx = PutVal(ctx, comp.id, NumV(basicMaths(comp, ctx)))]
     ELSE IF st = "maxMin" THEN [acc EXCEPT !.ctx = PutVal(ctx, comp.id, NumV(maxMin(comp, ctx)))]
     ELSE IF st = "rounding" THEN [acc EXCEPT !.ctx = PutVal(ctx, comp.id, NumV(rounding(comp, ctx)))]
     ELSE IF st = "tieredPricingMath"
     THEN [acc EXCEPT !.ctx = PutVal(ctx, comp.id, NumV(TieredTotal(comp, ctx)))]
     ELSE acc

RECURSIVE FlattenOps(_)
FlattenOps(mathsOps) ==
  IF mathsOps = <<>> THEN <<>> ELSE Head(mathsOps).components \o FlattenOps(Tail(mathsOps))

RECURSIVE ExecuteComps(_, _, _)
ExecuteComps(comps, acc, pricingByDef) ==
  IF comps = <<>> THEN acc
  ELSE ExecuteComps(Tail(comps), ExecuteComp(Head(comps), acc, pricingByDef), pricingByDef)

\* Returns the priceDisplays and the context as the section leaves it.
executeMathsSection(mathsOps, ctx, pricingByDef) ==
  ExecuteComps(FlattenOps(mathsOps), [ctx |-> ctx, priceDisplays |-> <<>>], pricingByDef)

\* ------------------------------------------- calculateServiceCost, in full

\* What GET of a mapping's price table returns: regions[regionName][unit],
\* prices already through parseFloat(info.price) || 0.
PriceData(listing) ==
  [r \in (IF listing = "listed" THEN {"US East (N. Virginia)", "EU (Ireland)"}
          ELSE {"US East (N. Virginia)"}) |->
     IF r = "US East (N. Virginia)"
     THEN [u \in {"perUnit", "premium"} |-> IF u = "perUnit" THEN Rat(1, 2) ELSE Whole(3)]
     ELSE [u \in {"perUnit"} |-> Whole(2)]]

\* The outcomes of the GET of one price table: the table lists both regions,
\* only the first, or the GET fails.
PricingOutcomes == {"listed", "usOnly", "failed"}

\* fetchPricingForService from a cold cache; priceGets[name] is the outcome of
\* the GET of that mapping's table.
fetchPricingForService(def, regionName, priceGets) ==
  LET names == {MappingDefs(def)[i] : i \in 1..Len(MappingDefs(def))}
  IN [name \in names |->
        IF priceGets[name] = "failed" THEN NoPrices
        ELSE IF regionName \in DOMAIN PriceData(priceGets[name])
        THEN PriceData(priceGets[name])[regionName]
        ELSE NoPrices]

\* The catch branch writes its empty table to the cache as well.
FetchedTableCachesFailure(regionName, priceGet) ==
  IF priceGet = "failed" THEN [table |-> NoPrices, cached |-> TRUE]
  ELSE [table |-> IF regionName \in DOMAIN PriceData(priceGet)
                  THEN PriceData(priceGet)[regionName] ELSE NoPrices,
        cached |-> TRUE]

\* Lines 244-256 for one name that is not in the cache: the table that goes
\* into the result and whether it is written to pricingCache.
FetchedTable(regionName, priceGet) ==
  IF priceGet = "failed" THEN [table |-> NoPrices, cached |-> FALSE]
  ELSE [table |-> IF regionName \in DOMAIN PriceData(priceGet)
                  THEN PriceData(priceGet)[regionName] ELSE NoPrices,
        cached |-> TRUE]

\* The names of a list as a set.
NameSet(names) == {names[i] : i \in 1..Len(names)}

\* The cache after the tasks of the names ran.
CacheAfter(names, regionName, cache, priceGets) ==
  [k \in DOMAIN cache
        \cup {PricingKey(n, regionName) :
                n \in {m \in names : FetchedTable(regionName, priceGets[m]).cached}} |->
     IF k \in DOMAIN cache THEN cache[k] ELSE FetchedTable(regionName, priceGets[k.name]).table]

\* fetchPricingForService over the pricing cache as it is (cache: key -> table):
\* the result, the cache as the call leaves it and the names whose table was
\* requested with a GET.
fetchPricingCached(def, regionName, cache, priceGets) ==
  [pricingByDef |->
     [name \in NameSet(MappingDefs(def)) |->
        IF PricingKey(name, regionName) \in DOMAIN cache
        THEN cache[PricingKey(name, regionName)]
        ELSE FetchedTable(regionName, priceGets[name]).table],
   cache |-> CacheAfter(NameSet(MappingDefs(def)), regionName, cache, priceGets),
   requested |-> {name \in NameSet(MappingDefs(def)) :
                    PricingKey(name, regionName) \notin DOMAIN cache}]

\* The displays of a card (ran) added to those collected so far.
Collected(acc, ran) ==
  [ctx |-> ran.ctx, priceDisplays |-> acc.priceDisplays \o ran.priceDisplays]

\* The body of the loop over the cards.
EvaluateCard(card, acc, pricingByDef) ==
  IF ~card.hasMaths THEN acc
  ELSE IF Skipped(card.displayIf, acc.ctx, pricingByDef) THEN acc
  ELSE Collected(acc, executeMathsSection(card.mathsSection, acc.ctx, pricingByDef))

\* The loop over the cards of the first template.
RECURSIVE EvaluateCards(_, _, _)
EvaluateCards(cards, acc, pricingByDef) ==
  IF cards = <<>> THEN acc
  ELSE EvaluateCards(Tail(cards), EvaluateCard(Head(cards), acc, pricingByDef), pricingByDef)

\* The cards of every template, one template after the other.
RECURSIVE CardsOf(_)
CardsOf(templates) ==
  IF templates = <<>> THEN <<>> ELSE Head(templates).cards \o CardsOf(Tail(templates))

\* The cards of every template evaluated.
EvaluateAllTemplates(d, c, pricingByDef) ==
  EvaluateCards(CardsOf(d.templates),
                [ctx |-> resolveAllComponents(d, pricingByDef, c), priceDisplays |-> <<>>],
                pricingByDef)

\* The body of the loop over defs after the price tables are there: the context
\* is resolved and the cards of the first template run over it.  Gives the
\* context as the cards leave it and the priceDisplays collected.
EvaluateTemplates(d, c, pricingByDef) ==
  EvaluateCards(IF d.templates = <<>> THEN <<>> ELSE d.templates[1].cards,
                [ctx |-> resolveAllComponents(d, pricingByDef, c), priceDisplays |-> <<>>],
                pricingByDef)

\* The priceDisplays of a definition whose price tables are pricingByDef.
PricedDisplays(d, c, pricingByDef) == EvaluateTemplates(d, c, pricingByDef).priceDisplays

\* The priceDisplays one definition contributes.
DefinitionDisplays(d, c, regionName, priceGets) ==
  PricedDisplays(d, c, fetchPricingForService(d, regionName, priceGets))

\* defs: the sub-services whose definition was fetched, then the parent.
RECURSIVE FetchedSubs(_, _, _)
FetchedSubs(subServices, i, subOk) ==
  IF i > Len(subServices) THEN <<>>
  ELSE (IF subOk[i] THEN <<subServices[i]>> ELSE <<>>) \o FetchedSubs(subServices, i + 1, subOk)

\* The sum of the values whose costType is (upfront) or is not (~upfront) "Upfront".
RECURSIVE SumDisplays(_, _)
SumDisplays(displays, upfront) ==
  IF displays = <<>> THEN Zero
  ELSE RAdd(IF (Head(displays).costType = "Upfront") = upfront THEN Head(displays).value
            ELSE Zero,
            SumDisplays(Tail(displays), upfront))

RECURSIVE Concat(_)
Concat(lists) == IF lists = <<>> THEN <<>> ELSE Head(lists) \o Concat(Tail(lists))

\* The sum returned as it is.
ClampNone(sum) == sum

\* Math.max(0, sum)
Clamp(sum) == RMax(Zero, sum)

\* The catch branch.
NoCost ==
  [null |-> TRUE, monthly |-> Zero, upfront |-> Zero, calculationComponents |-> EmptyMap,
   evaluated |-> <<>>]

\* One definition of defs evaluated: its cc is built from its own inputs;
\* calculationComponents records the cc handed to evaluateTemplate.
Evaluated(code, regionName, userInputs, priceGets) ==
  [serviceCode |-> code,
   regionName |-> regionName,
   calculationComponents |->
     buildCalcComponents(extractInputs(ServiceDef(code).templates), userInputs),
   priceDisplays |->
     DefinitionDisplays(ServiceDef(code),
       buildCalcComponents(extractInputs(ServiceDef(code).templates), userInputs),
       regionName, priceGets)]

EvaluatedDefs(codes, regionName, userInputs, priceGets) ==
  [i \in 1..Len(codes) |-> Evaluated(codes[i], regionName, userInputs, priceGets)]

AllDisplays(evaluated) == Concat([i \in 1..Len(evaluated) |-> evaluated[i].priceDisplays])

\* The return statement.
CostOf(evaluated, cc) ==
  [null |-> FALSE,
   monthly |-> Clamp(SumDisplays(AllDisplays(evaluated), FALSE)),
   upfront |-> Clamp(SumDisplays(AllDisplays(evaluated), TRUE)),
   calculationComponents |-> cc,
   evaluated |-> evaluated]

\* calculateServiceCost with its evaluation spelled out.  fetched and subOk are
\* the outcomes of the GETs of the definitions; evaluated records, for each
\* definition of defs, the region it was priced in and what it contributed.
EvaluateService(serviceCode, region, userInputs, fetched, subOk, priceGets) ==
  IF ~fetched THEN NoCost
  ELSE CostOf(EvaluatedDefs(Append(FetchedSubs(ServiceDef(serviceCode).subServices, 1, subOk),
                                   serviceCode),
                            EvaluatorRegionName(region), userInputs, priceGets),
              buildCalcComponents(extractInputs(ServiceDef(serviceCode).templates), userInputs))

EvalCodes == {"pricedService", "storeService", "amazonS3", "emptyService"}
EvalRegions == {"us-east-1", "eu-west-1", "ap-test-9"}
EvalUserInputs ==
  {EmptyMap,
   [k \in {"units"} |-> Bare(Num("7"))],
   [k \in {"units"} |-> Bare(Str("abc"))],
   [k \in {"units", "requests"} |->
      IF k = "units" THEN Bare(Num("0")) ELSE Wrapped(Num("1"), "per day")],
   [k \in {"storageGB", "storageClass"} |->
      IF k = "storageGB" THEN Wrapped(Num("0.5"), "TB") ELSE Bare(Str("S3 Glacier"))]}

NoArgs ==
  [serviceCode |-> "", region |-> "", userInputs |-> EmptyMap, fetched |-> FALSE,
   subOk |-> <<>>, outcome |-> "failed"]

\* Definitions built around one maths section, for the evaluation of one
\* definition on its own: the first template has the inputs of PricedComps
\* with that section, a card without maths and a card whose displayIf is cond;
\* a second template, the alternative, has maths of its own.
MaxOps == 3
MathPool ==
  {BasicMaths("a", "addition", <<Variable("a"), Variable("units"), Constant(Num("1"))>>),
   BasicMaths("b", "multiplication", <<Variable("a"), Variable("unitPrice")>>),
   PriceDisplay("a", ""),
   PriceDisplay("b", "Upfront"),
   [BasicMaths("a", "subtraction", <<Constant(Num("10")), Variable("a")>>) EXCEPT
      !.displayIf = Equals("a", Num("1"))],
   [PriceDisplay("a", "Monthly") EXCEPT !.displayIf = Exists("s3", "premium")]}
LaterMaths ==
  <<MathOp(<<BasicMaths("a", "addition", <<Variable("a"), Variable("b")>>),
             PriceDisplay("a", "")>>)>>
LaterConds == {NoCond, Equals("a", Num("1")), Not(Exists("s3", "premium"))}
SecondMaths ==
  <<MathOp(<<BasicMaths("a", "addition", <<Constant(Num("100"))>>),
             PriceDisplay("a", "Monthly")>>)>>

\* The components in two operators: the first alone, then the others.
SectionOf(comps) ==
  IF comps = <<>> THEN <<>> ELSE <<MathOp(<<Head(comps)>>), MathOp(Tail(comps))>>

MathsDef(comps, cond) ==
  [serviceCode |-> "mathsService", version |-> "", estimateFor |-> "",
   templates |->
     <<Template("first", <<MathCard(PricedComps, NoCond, SectionOf(comps)),
                           Card(<<>>),
                           MathCard(<<>>, cond, LaterMaths)>>),
       Template("second", <<MathCard(<<>>, NoCond, SecondMaths)>>)>>,
   subServices |-> <<>>]

MathsCCs == {EmptyMap, [k \in {"units"} |-> Wrapped(Num("2"), "")]}
MathsPricing ==
  {[n \in {"s3"} |-> PriceData("listed")[r]] : r \in {"US East (N. Virginia)", "EU (Ireland)"}}

\* Conditions for evalDisplayIf applied alone: the atoms, their negations, and
\* conjunctions and disjunctions of up to MaxArgs atoms with their negations.
MaxArgs == 2
CondAtoms ==
  {NoCond,
   Exists("s3", "premium"),
   Exists("tier", "perUnit"),
   [Exists("s3", "perUnit") EXCEPT !.type = "region"],
   Equals("a", Num("1")),
   Equals("a", Str("undefined")),
   Equals("c", Str("S3 Glacier")),
   [Equals("", Str("0.5")) EXCEPT !.leftLiteral = Num("0.5")],
   [NoCond EXCEPT !.op = ">"]}
CondGroups ==
  {And(cs) : cs \in SeqsUpTo(CondAtoms, MaxArgs)} \cup {Or(cs) : cs \in SeqsUpTo(CondAtoms, MaxArgs)}
CondPool ==
  CondAtoms \cup CondGroups \cup {Not(c) : c \in CondAtoms \cup CondGroups}
CondContexts ==
  {EmptyCtx,
   PutVal(PutVal(EmptyCtx, "a", NumV(Whole(1))), "c", StrV("S3 Glacier")),
   PutVal(EmptyCtx, "a", NumV(Rat(1, 2)))}
CondPricing == MathsPricing \cup {[n \in {} |-> NoPrices]}

\* basicMaths components applied alone: an operation, named or not, over up to
\* MaxOperands operands.
MaxOperands == 3
Operations == {"multiplication", "addition", "subtraction", "division", "modulo", ""}
OperandPool ==
  {Constant(Num("6")), Constant(Num("0")), Constant(Num("0.5")), Constant(Num("-3")),
   Variable("x")}
OperandContexts == {EmptyCtx, PutVal(EmptyCtx, "x", NumV(Whole(2)))}

\* resolveAllComponents applied alone: the definitions with replace components,
\* the calculationComponents built from what a user gives, and the price maps.
ResolveCodes == {"replaceService", "storeService"}
ResolveUserInputs ==
  {EmptyMap,
   [k \in {"storageClass"} |-> Bare(Str("S3 Glacier"))],
   [k \in {"storageClass", "units"} |->
      IF k = "units" THEN Bare(Num("2")) ELSE Wrapped(Str("s3Glacier"), "")],
   [k \in {"mode", "storageGB"} |->
      IF k = "mode" THEN Bare(Str("Fast")) ELSE Wrapped(Num("0.5"), "TB")]}

MaxTiers == 2
TierStarts == {0, 2, 3}
TierEnds == {-1, 2, 5}
TierPrices == {Rat(1, 2), Whole(3)}
TierPool == {Tier(a, b, p) : a \in TierStarts, b \in TierEnds, p \in TierPrices}

\* load_estimate's id extraction: estimateId.match(/id=([a-zA-Z0-9-]+)/).
IdClass == "abcdefghijklmnopqrstuvwxyzABCDEFGHIJKLMNOPQRSTUVWXYZ0123456789-"
IdClassNoHyphen == "abcdefghijklmnopqrstuvwxyzABCDEFGHIJKLMNOPQRSTUVWXYZ0123456789"

\* The class without the hyphen.
InIdClassNoHyphen(c) ==
  \E k \in 1..Len(IdClassNoHyphen) : SubSeq(IdClassNoHyphen, k, k) = c

\* [a-zA-Z0-9-]
InIdClass(c) == \E k \in 1..Len(IdClass) : SubSeq(IdClass, k, k) = c

\* The regex matches at position i: "id=" and at least one character of the class.
MatchesAt(text, i) ==
  /\ i + 3 <= Len(text)
  /\ SubSeq(text, i, i + 2) = "id="
  /\ InIdClass(SubSeq(text, i + 3, i + 3))

\* The end of the longest run of class characters that starts at position i.
RECURSIVE RunEnd(_, _)
RunEnd(text, i) ==
  IF i < Len(text) /\ InIdClass(SubSeq(text, i + 1, i + 1)) THEN RunEnd(text, i + 1) ELSE i

\* match ? match[1] : estimateId, match being the leftmost one.
extractId(estimateId) ==
  LET starts == {i \in 1..Len(estimateId) : MatchesAt(estimateId, i)}
  IN IF starts = {} THEN estimateId
     ELSE LET i == CHOOSE a \in starts : \A b \in starts : a <= b
          IN SubSeq(estimateId, i + 3, RunEnd(estimateId, i + 3))

MaxIdLen == 3
IdAlphabet == {"a", "B", "7", "-", "i", "d"}

RECURSIVE IdsOfLen(_)
IdsOfLen(n) == IF n = 0 THEN {""} ELSE {s \o c : s \in IdsOfLen(n - 1), c \in IdAlphabet}

IdPool == UNION {IdsOfLen(n) : n \in 1..MaxIdLen}

\* The forms of the argument: the bare id, the shareable link, its fragment,
\* and the link followed by a further parameter.
ArgForms == {"bare", "link", "fragment", "linkMore"}
ArgOf(form, id) ==
  CASE form = "bare" -> id
    [] form = "link" -> "https://calculator.aws/#/estimate?id=" \o id
    [] form = "fragment" -> "#/estimate?id=" \o id
    [] form = "linkMore" -> "https://calculator.aws/#/estimate?id=" \o id \o "&view=1"

\* ------------------------------------------------------------ load_estimate

WhiteSpace == {" ", "\n", "\t"}

RECURSIVE TrimStart(_)
TrimStart(text) ==
  IF text # "" /\ SubSeq(text, 1, 1) \in WhiteSpace THEN TrimStart(SubSeq(text, 2, Len(text)))
  ELSE text

RECURSIVE TrimEnd(_)
TrimEnd(text) ==
  IF text # "" /\ SubSeq(text, Len(text), Len(text)) \in WhiteSpace
  THEN TrimEnd(SubSeq(text, 1, Len(text) - 1))
  ELSE text

\* text.trim()
Trim(text) == TrimEnd(TrimStart(text))

StartsWith(text, prefix) ==
  Len(text) >= Len(prefix) /\ SubSeq(text, 1, Len(prefix)) = prefix

\* One entry of data.services as the summary reads it; "" is an absent string and
\* hasCost tells whether serviceCost is there.
SavedService(serviceName, regionName, templateId, hasCost, monthly, components) ==
  [serviceName |-> serviceName, regionName |-> regionName, templateId |-> templateId,
   hasCost |-> hasCost, monthly |-> monthly, components |-> components]

\* What JSON.parse gives: null, or an object with (hasTotal) or without totalCost.
SavedDoc(name, hasTotal, monthly, upfront, svcs) ==
  [null |-> FALSE, name |-> name, hasTotal |-> hasTotal, monthly |-> monthly,
   upfront |-> upfront, services |-> svcs]
NullDoc == [SavedDoc("", FALSE, 0, 0, <<>>) EXCEPT !.null = TRUE]

\* A response of the load store: threw is a fetch that rejected; parses tells
\* whether JSON.parse accepts the text, doc what it gives.
LoadResp(status, text, parses, doc) ==
  [threw |-> FALSE, status |-> status, text |-> text, parses |-> parses, doc |-> doc]

StoredDoc ==
  SavedDoc("My Estimate", TRUE, 7, 2,
           <<SavedService("Amazon S3", "EU (Ireland)", "s3Template", TRUE, 7, 2),
             SavedService("Legacy", "US East (N. Virginia)", "", FALSE, 0, 2),
             SavedService("Bare", "US East (N. Virginia)", "", TRUE, 0, 0)>>)

LoadResponses ==
  {LoadResp(200, "{\"name\":\"My Estimate\"}", TRUE, StoredDoc),
   LoadResp(200, " \n{\"name\":\"My Estimate\"}\n", TRUE, StoredDoc),
   LoadResp(200, "{}", TRUE, SavedDoc("", FALSE, 0, 0, <<>>)),
   LoadResp(200, "null", TRUE, NullDoc),
   LoadResp(200, "<Error><Code>AccessDenied</Code></Error>", FALSE, NullDoc),
   LoadResp(200, "\n  <Error/>", FALSE, NullDoc),
   LoadResp(200, "not found", FALSE, NullDoc),
   LoadResp(200, "", FALSE, NullDoc),
   LoadResp(403, "<Error><Code>AccessDenied</Code></Error>", FALSE, NullDoc),
   LoadResp(404, "{\"name\":\"My Estimate\"}", TRUE, StoredDoc),
   LoadResp(500, "", FALSE, NullDoc),
   [LoadResp(0, "", FALSE, NullDoc) EXCEPT !.threw = TRUE]}

\* The line of one service in the summary.
ServiceLine(svc) ==
  [serviceName |-> svc.serviceName, regionName |-> svc.regionName,
   monthlyCost |-> IF svc.hasCost THEN svc.monthly ELSE 0,
   editStatus |-> IF svc.components > 0 /\ svc.templateId # "" THEN "editable"
                  ELSE IF svc.components > 0 THEN "missing templateId"
                  ELSE "no config data"]

\* The two text items of the result.
LoadedContent(data) ==
  [kind |-> "content", id |-> "", cause |-> "",
   summary |-> [name |-> data.name, hasTotal |-> data.hasTotal, monthly |-> data.monthly,
                upfront |-> data.upfront,
                services |-> [i \in 1..Len(data.services) |-> ServiceLine(data.services[i])]],
   full |-> data]

NoSummary == [name |-> "", hasTotal |-> FALSE, monthly |-> 0, upfront |-> 0, services |-> <<>>]

\* The error that names the argument as it was given.
LoadErrorRawArgument(estimateId, id, cause) ==
  [kind |-> "Error", id |-> estimateId, cause |-> cause, summary |-> NoSummary,
   full |-> NullDoc]

\* Failed to load estimate '${id}': ${e.message}. ...
LoadError(estimateId, id, cause) ==
  [kind |-> "Error", id |-> id, cause |-> cause, summary |-> NoSummary, full |-> NullDoc]

\* The handler of load_estimate on the argument estimateId, resp being what the
\* load store answers.  Reading data.services of a parsed null throws a
\* TypeError outside the try block.
load_estimate(estimateId, resp) ==
  IF resp.threw THEN LoadError(estimateId, extractId(estimateId), "fetch failed")
  ELSE IF ~Ok(resp)
  THEN LoadError(estimateId, extractId(estimateId), "HTTP " \o NatToString(resp.status))
  ELSE IF StartsWith(Trim(resp.text), "<")
  THEN LoadError(estimateId, extractId(estimateId), "Estimate not found or access denied")
  ELSE IF ~resp.parses THEN LoadError(estimateId, extractId(estimateId), "SyntaxError")
  ELSE IF resp.doc.null
  THEN [kind |-> "TypeError", id |-> "", cause |-> "", summary |-> NoSummary, full |-> NullDoc]
  ELSE LoadedContent(resp.doc)

EvalIdle ==
  /\ eArgs = <<>>
  /\ eOut = <<>>
  /\ cArgs = NoArgs
  /\ cOut = NoCost
  /\ iId = ""
  /\ iArg = ""
  /\ iOut = ""
  /\ ePhase = "idle"
  /\ vSubType = ""
  /\ vRaw = Bare(Null)
  /\ vOut = Zero
  /\ tQty = Null
  /\ tTiers = <<>>
  /\ tCharged = <<>>
  /\ tOut = Zero

CallNormalizeValue ==
  /\ ePhase = "idle"
  /\ \E subType \in SubTypePool, x \in ValuePool, unit \in UnitPool, w \in BOOLEAN :
       LET raw == IF w THEN Wrapped(x, unit) ELSE Bare(x)
       IN /\ w \/ unit = ""
          /\ vSubType' = subType
          /\ vRaw' = raw
          /\ vOut' = normalizeValue(subType, raw)
  /\ ePhase' = "normalized"
  /\ UNCHANGED <<tQty, tTiers, tCharged, tOut, iId, iArg, iOut, cArgs, cOut, eArgs, eOut>>
  /\ UNCHANGED <<cvars, nvars, kvars>>

CallTieredPricingMath ==
  /\ ePhase = "idle"
  /\ \E x \in ValuePool, tiers \in SeqsUpTo(TierPool, MaxTiers) :
       /\ tQty' = x
       /\ tTiers' = tiers
       /\ tCharged' = tieredPricingMath(x, tiers).charged
       /\ tOut' = tieredPricingMath(x, tiers).total
  /\ ePhase' = "tiered"
  /\ UNCHANGED <<vSubType, vRaw, vOut, iId, iArg, iOut, cArgs, cOut, eArgs, eOut>>
  /\ UNCHANGED <<cvars, nvars, kvars>>

LoadEstimateExtractId ==
  /\ ePhase = "idle"
  /\ \E id \in IdPool, form \in ArgForms :
       /\ iId' = id
       /\ iArg' = ArgOf(form, id)
       /\ iOut' = extractId(ArgOf(form, id))
  /\ ePhase' = "extracted"
  /\ UNCHANGED <<vSubType, vRaw, vOut, tQty, tTiers, tCharged, tOut, cArgs, cOut, eArgs,
               eOut>>
  /\ UNCHANGED <<cvars, nvars, kvars>>

LoadEstimate ==
  /\ ePhase = "idle"
  /\ \E id \in IdPool, form \in ArgForms, resp \in LoadResponses :
       /\ Len(id) <= 2
       /\ eArgs' = [id |-> id, estimateId |-> ArgOf(form, id), resp |-> resp]
       /\ eOut' = load_estimate(ArgOf(form, id), resp)
  /\ ePhase' = "loaded"
  /\ UNCHANGED <<vSubType, vRaw, vOut, tQty, tTiers, tCharged, tOut, iId, iArg, iOut, cArgs,
               cOut>>
  /\ UNCHANGED <<cvars, nvars, kvars>>

\* Lines 462-477 for one entry of defs whose price tables are there.
CallEvaluateTemplates ==
  /\ ePhase = "idle"
  /\ \E comps \in SeqsUpTo(MathPool, MaxOps), cond \in LaterConds, c \in MathsCCs,
        pricingByDef \in MathsPricing :
       /\ eArgs' = [def |-> MathsDef(comps, cond), cc |-> c, pricingByDef |-> pricingByDef]
       /\ eOut' = EvaluateTemplates(MathsDef(comps, cond), c, pricingByDef)
  /\ ePhase' = "evaluated"
  /\ UNCHANGED <<vSubType, vRaw, vOut, tQty, tTiers, tCharged, tOut, iId, iArg, iOut, cArgs,
               cOut>>
  /\ UNCHANGED <<cvars, nvars, kvars>>

CallEvalDisplayIf ==
  /\ ePhase = "idle"
  /\ \E condition \in CondPool, ctx \in CondContexts, pricingByDef \in CondPricing :
       /\ eArgs' = [condition |-> condition, ctx |-> ctx, pricingByDef |-> pricingByDef]
       /\ eOut' = evalDisplayIf(condition, ctx, pricingByDef)
  /\ ePhase' = "shown"
  /\ UNCHANGED <<vSubType, vRaw, vOut, tQty, tTiers, tCharged, tOut, iId, iArg, iOut, cArgs,
               cOut>>
  /\ UNCHANGED <<cvars, nvars, kvars>>

\* One pass of the inner loop of executeMathsSection over a basicMaths.
CallBasicMaths ==
  /\ ePhase = "idle"
  /\ \E operation \in Operations, operands \in SeqsUpTo(OperandPool, MaxOperands),
        ctx \in OperandContexts :
       /\ eArgs' = [comp |-> BasicMaths("r", operation, operands), ctx |-> ctx]
       /\ eOut' = ExecuteComp(BasicMaths("r", operation, operands),
                              [ctx |-> ctx, priceDisplays |-> <<>>], [n \in {} |-> NoPrices])
  /\ ePhase' = "folded"
  /\ UNCHANGED <<vSubType, vRaw, vOut, tQty, tTiers, tCharged, tOut, iId, iArg, iOut, cArgs,
               cOut>>
  /\ UNCHANGED <<cvars, nvars, kvars>>

\* Lines 441 and 462: the calculationComponents are built from the user's
\* inputs and the context is resolved from them.
CallResolveAllComponents ==
  /\ ePhase = "idle"
  /\ \E code \in ResolveCodes, user \in ResolveUserInputs, pricingByDef \in CondPricing :
       /\ eArgs' = [def |-> ServiceDef(code),
                    cc |-> buildCalcComponents(extractInputs(ServiceDef(code).templates), user),
                    pricingByDef |-> pricingByDef]
       /\ eOut' = resolveAllComponents(
                    ServiceDef(code), pricingByDef,
                    buildCalcComponents(extractInputs(ServiceDef(code).templates), user))
  /\ ePhase' = "resolved"
  /\ UNCHANGED <<vSubType, vRaw, vOut, tQty, tTiers, tCharged, tOut, iId, iArg, iOut, cArgs,
               cOut>>
  /\ UNCHANGED <<cvars, nvars, kvars>>

ColdCache == [k \in {} |-> NoPrices]

\* fetchPricingForService of a first invocation, the cache being empty.
CallFetchPricing ==
  /\ ePhase = "idle"
  /\ \E regionName \in DOMAIN PriceData("listed"),
        priceGets \in [{"s3", "tier"} -> PricingOutcomes] :
       /\ eArgs' = [def |-> ServiceDef("twoTableService"), regionName |-> regionName,
                    priceGets |-> priceGets, cache |-> ColdCache,
                    first |-> [regionName |-> regionName, priceGets |-> priceGets]]
       /\ eOut' = fetchPricingCached(ServiceDef("twoTableService"), regionName, ColdCache,
                                     priceGets)
  /\ ePhase' = "fetched"
  /\ UNCHANGED <<vSubType, vRaw, vOut, tQty, tTiers, tCharged, tOut, iId, iArg, iOut, cArgs,
               cOut>>
  /\ UNCHANGED <<cvars, nvars, kvars>>

\* fetchPricingForService of the next invocation, over the cache the first one
\* left.
CallFetchPricingAgain ==
  /\ ePhase = "fetched"
  /\ \E regionName \in DOMAIN PriceData("listed"),
        priceGets \in [{"s3", "tier"} -> PricingOutcomes] :
       /\ eArgs' = [def |-> eArgs.def, regionName |-> regionName, priceGets |-> priceGets,
                    cache |-> eOut.cache, first |-> eArgs.first]
       /\ eOut' = fetchPricingCached(eArgs.def, regionName, eOut.cache, priceGets)
  /\ ePhase' = "fetchedAgain"
  /\ UNCHANGED <<vSubType, vRaw, vOut, tQty, tTiers, tCharged, tOut, iId, iArg, iOut, cArgs,
               cOut>>
  /\ UNCHANGED <<cvars, nvars, kvars>>

CallCalculateServiceCost ==
  /\ ePhase = "idle"
  /\ \E code \in EvalCodes, region \in EvalRegions, user \in EvalUserInputs,
        fetched \in BOOLEAN, listing \in PricingOutcomes :
       \E subOk \in [1..Len(ServiceDef(code).subServices) -> BOOLEAN] :
         /\ fetched \/ \A i \in DOMAIN subOk : ~subOk[i]
         /\ cArgs' = [serviceCode |-> code, region |-> region, userInputs |-> user,
                      fetched |-> fetched, subOk |-> subOk, outcome |-> listing]
         /\ cOut' = EvaluateService(code, region, user, fetched, subOk,
                                    [n \in {"s3", "tier"} |-> listing])
  /\ ePhase' = "priced"
  /\ UNCHANGED <<vSubType, vRaw, vOut, tQty, tTiers, tCharged, tOut, iId, iArg, iOut, eArgs,
               eOut>>
  /\ UNCHANGED <<cvars, nvars, kvars>>

EvalNext ==
  \/ CallNormalizeValue
  \/ CallTieredPricingMath
  \/ LoadEstimateExtractId
  \/ CallCalculateServiceCost
  \/ LoadEstimate
  \/ CallEvaluateTemplates
  \/ CallEvalDisplayIf
  \/ CallBasicMaths
  \/ CallResolveAllComponents
  \/ CallFetchPricing
  \/ CallFetchPricingAgain

\* ------------------------------------------- the normalizer, applied alone

NormIdle ==
  /\ nPhase = "idle"
  /\ nField = NoInput
  /\ nRaw = Null
  /\ nRes = Null
  /\ nInputs = <<>>
  /\ nUser = EmptyMap
  /\ nOut = EmptyMap

CallResolveValue ==
  /\ nPhase = "idle"
  /\ \E f \in FieldPool, r \in ScalarPool :
       /\ nField' = f
       /\ nRaw' = r
       /\ nRes' = resolveValue(f, r)
  /\ nPhase' = "resolved"
  /\ UNCHANGED <<nInputs, nUser, nOut>>
  /\ UNCHANGED cvars
  /\ UNCHANGED kvars
  /\ UNCHANGED evars

CallBuildCalcComponents ==
  /\ nPhase = "idle"
  /\ \E inputs \in SeqsUpTo(FieldPool, MaxFields), user \in UserMaps :
       /\ nInputs' = inputs
       /\ nUser' = user
       /\ nOut' = buildCalcComponents(inputs, user)
  /\ nPhase' = "built"
  /\ UNCHANGED <<nField, nRaw, nRes>>
  /\ UNCHANGED cvars
  /\ UNCHANGED kvars
  /\ UNCHANGED evars

\* The normalizer's functions applied to drawn inputs, no tool running.
NormInit == CreateInit /\ NormIdle /\ CacheIdle /\ EvalIdle

\* The field lists and the inputs of a configure_service whose result is passed
\* back to create_estimate.
RoundTripInputs ==
  {walkComponents(comps) : comps \in {StorageComps, TierComps, RoundTripComps, LabelDefaultComps}}
RoundTripUsers ==
  {EmptyMap}
  \cup {[k \in {"storageClass"} |-> v] :
          v \in {Bare(Str("S3 Glacier")), Wrapped(Str("s3Glacier"), "")}}
  \cup {[k \in {"dataSize"} |-> v] : v \in {Bare(Num("5")), Wrapped(Num("500"), "TB")}}
  \cup {[k \in {"tier"} |-> Bare(Str(s))] : s \in {"0", "1", "2"}}
  \cup {[k \in {"level"} |-> Bare(Str(s))] : s \in {"0", "1", "2"}}
  \cup {[k \in {"pricing"} |-> v] :
          v \in {Bare(Obj("model=reserved;")), Wrapped(Obj("model=reserved;"), ""),
                 Wrapped(Str("reserved"), "")}}
  \cup {[k \in {"unknownField"} |-> Bare(Str("other"))]}

\* buildCalcComponents applied to its own result: configure_service (line 596)
\* and then create_estimate (line 690) over the same definition.
CallBuildCalcComponentsTwice ==
  /\ nPhase = "idle"
  /\ \E inputs \in RoundTripInputs, user \in RoundTripUsers :
       /\ nInputs' = inputs
       /\ nUser' = user
       /\ nOut' = buildCalcComponents(inputs, buildCalcComponents(inputs, user))
  /\ nPhase' = "rebuilt"
  /\ UNCHANGED <<nField, nRaw, nRes>>
  /\ UNCHANGED cvars
  /\ UNCHANGED kvars
  /\ UNCHANGED evars

NormNext == CallResolveValue \/ CallBuildCalcComponents \/ CallBuildCalcComponentsTwice

SpecNorm == NormInit /\ [][NormNext]_vars

\* ------------------------------------------ one create_estimate invocation

Init == CreateInit /\ NormIdle /\ CacheIdle /\ EvalIdle

Next == AddService \/ Save \/ Retry

Spec == Init /\ [][Next]_vars

\* ------------------------------ concurrent tool calls in one server process

CacheInit == CreateInit /\ NormIdle /\ CacheIdle /\ EvalIdle

SpecCache == CacheInit /\ [][CacheNext]_vars

\* -------------------------------- the pricing engine's functions, applied alone

EvalInit == CreateInit /\ NormIdle /\ CacheIdle /\ EvalIdle

SpecEval == EvalInit /\ [][EvalNext]_vars


\* --------------------------------------------------- claims: the normalizer

OptionStrings(f) ==
  {f.options[i].label : i \in 1..Len(f.options)} \cup {f.options[i].value : i \in 1..Len(f.options)}

\* C7 as stated: every option's label and value resolve to that option's value,
\* and everything else is returned unchanged.
C7_Original ==
  nPhase = "resolved" =>
    /\ \A i \in 1..Len(nField.options) :
         (nRaw = Str(nField.options[i].label) \/ nRaw = Str(nField.options[i].value))
           => nRes = Str(nField.options[i].value)
    /\ (nRaw.k # "str" \/ nRaw.v \notin OptionStrings(nField)) => nRes = nRaw

\* C7 (amended): resolveValue(f, s) is the value of the FIRST option of f whose
\* label or value is the string s, so o.label and o.value resolve to o.value when
\* no earlier option of f has that string as its label or value; a string that no
\* option has, and every non-string input, is returned unchanged.
C7_ResolveFirstMatch ==
  nPhase = "resolved" =>
    /\ \A i \in 1..Len(nField.options) :
         /\ nRaw.k = "str"
         /\ nRaw.v \in {nField.options[i].label, nField.options[i].value}
         /\ \A j \in 1..(i - 1) : nRaw.v \notin {nField.options[j].label, nField.options[j].value}
         => nRes = Str(nField.options[i].value)
    /\ (nRaw.k # "str" \/ nRaw.v \notin OptionStrings(nField)) => nRes = nRaw

C7_Witness ==
  /\ nPhase = "resolved"
  /\ nField.id = "storageClass"
  /\ nRaw = Str("S3 Glacier")
  /\ nRes = Str("s3Glacier")

\* The ids of the list that have a default that is neither null nor "".
DefaultIds(inputs) ==
  {inputs[i].id : i \in {j \in 1..Len(inputs) :
                           inputs[j].default # Null /\ inputs[j].default # Str("")}}

\* The entry a default is stored as, for the field that supplied it (the last
\* field of the list with that id and a meaningful default).
DefaultEntry(inputs, id) ==
  LET hits == {i \in 1..Len(inputs) :
                 /\ inputs[i].id = id
                 /\ inputs[i].default # Null
                 /\ inputs[i].default # Str("")}
      f == inputs[CHOOSE i \in hits : \A j \in hits : j <= i]
  IN IF f.type \in {"frequency", "fileSize"} /\ f.defaultUnit # ""
     THEN [w |-> TRUE, val |-> f.default, unit |-> f.defaultUnit]
     ELSE IF f.type = "pricingStrategy"
     THEN [w |-> FALSE, val |-> f.default, unit |-> ""]
     ELSE [w |-> TRUE, val |-> f.default, unit |-> ""]

\* C8: with no user inputs, buildCalcComponents has an entry for an id exactly
\* when a field with that id has a default that is neither null nor the empty
\* string, and the entry is {value, unit: defaultUnit} for a sized field with a
\* defaultUnit, the default object itself for pricingStrategy, {value} otherwise.
C8_DefaultsOnly ==
  (nPhase = "built" /\ DOMAIN nUser = {}) =>
    /\ DOMAIN nOut = DefaultIds(nInputs)
    /\ \A id \in DOMAIN nOut : nOut[id] = DefaultEntry(nInputs, id)

C8_Witness ==
  /\ nPhase = "built"
  /\ DOMAIN nUser = {}
  /\ \E i \in 1..Len(nInputs) : nInputs[i].id = "note" /\ "note" \notin DOMAIN nOut
  /\ "dataSize" \in DOMAIN nOut
  /\ nOut["dataSize"] = [w |-> TRUE, val |-> Num("100"), unit |-> "GB"]

\* C9: with user inputs, the keys are the ids with a meaningful default united
\* with the user's keys; a key the user did not set has its default entry; a user
\* key carries the user's value (resolved to an option value when it names an
\* option), not the default; a user key that matches no field keeps its value as
\* {value: v} (an already wrapped {value, unit} is kept as it is).
C9_MergeUserInputs ==
  (nPhase = "built" /\ DOMAIN nUser # {}) =>
    /\ DOMAIN nOut = DefaultIds(nInputs) \cup DOMAIN nUser
    /\ \A k \in DOMAIN nOut \ DOMAIN nUser : nOut[k] = DefaultEntry(nInputs, k)
    /\ \A k \in DOMAIN nUser :
         \/ nOut[k].val = nUser[k].val
         \/ \E i \in 1..Len(nInputs) :
              /\ nInputs[i].id = k
              /\ \E o \in 1..Len(nInputs[i].options) :
                   /\ nUser[k].val.v \in {nInputs[i].options[o].label, nInputs[i].options[o].value}
                   /\ nOut[k].val = Str(nInputs[i].options[o].value)
    /\ \A k \in DOMAIN nUser :
         (\A i \in 1..Len(nInputs) : nInputs[i].id # k) =>
           nOut[k] = IF nUser[k].w THEN nUser[k]
                     ELSE [w |-> TRUE, val |-> nUser[k].val, unit |-> ""]

C9_Witness ==
  /\ nPhase = "built"
  /\ DOMAIN nUser = {"storageClass", "unknownField"}
  /\ nUser["unknownField"] = Bare(Str("other"))
  /\ nOut["unknownField"] = [w |-> TRUE, val |-> Str("other"), unit |-> ""]
  /\ nUser["storageClass"] = Bare(Str("S3 Glacier"))
  /\ nOut["storageClass"].val = Str("s3Glacier")
  /\ "dataSize" \in DOMAIN nOut


\* ------------------------------------------------ claims: create_estimate

RECURSIVE SumOver(_, _)
SumOver(svcs, field) ==
  IF svcs = <<>> THEN 0
  ELSE Head(svcs).serviceCost[field] + SumOver(Tail(svcs), field)

\* C1: in every document POSTed to the save store (first attempt and stripped
\* retry) totalCost = groupSubtotal = the sum of serviceCost over the top-level
\* services, for monthly and for upfront.
C1_TotalsAreSums ==
  \A p \in 1..Len(posts) :
    \A field \in {"monthly", "upfront"} :
      /\ posts[p].totalCost[field] = posts[p].groupSubtotal[field]
      /\ posts[p].totalCost[field] = SumOver(posts[p].services, field)

C1_Witness ==
  /\ Len(posts) = 2
  /\ Len(posts[2].services) = 2
  /\ posts[2].services[1].serviceCost = [monthly |-> 7, upfront |-> 2]
  /\ posts[2].services[2].serviceCost = [monthly |-> 5, upfront |-> 3]
  /\ posts[2].totalCost = [monthly |-> 12, upfront |-> 5]

\* Two records agree on every field but calculationComponents (and subServices).
SameBut(a, b, except) ==
  /\ DOMAIN a = DOMAIN b
  /\ \A f \in DOMAIN a \ except : a[f] = b[f]

\* C2: one invocation issues at most two save POSTs; the second is issued if and
\* only if the first returned a non-2xx status; its document is the first one
\* with calculationComponents emptied in every service and every sub-service and
\* nothing else changed.
C2_RetryOnceStripped ==
  /\ Len(posts) <= 2
  /\ Len(posts) = 2 => (resps[1].status < 200 \/ resps[1].status > 299)
  /\ (pc = "done" /\ (resps[1].status < 200 \/ resps[1].status > 299)) => Len(posts) = 2
  /\ Len(posts) = 2 =>
       /\ SameBut(posts[1], posts[2], {"services"})
       /\ Len(posts[2].services) = Len(posts[1].services)
       /\ \A i \in 1..Len(posts[1].services) :
            LET a == posts[1].services[i]
                b == posts[2].services[i]
            IN /\ SameBut(a, b, {"calculationComponents", "subServices"})
               /\ DOMAIN b.calculationComponents = {}
               /\ Len(b.subServices) = Len(a.subServices)
               /\ \A j \in 1..Len(a.subServices) :
                    /\ SameBut(a.subServices[j], b.subServices[j], {"calculationComponents"})
                    /\ DOMAIN b.subServices[j].calculationComponents = {}

C2_Witness ==
  /\ Len(posts) = 2
  /\ \E i \in 1..Len(posts[1].services) :
       /\ DOMAIN posts[1].services[i].calculationComponents # {}
       /\ \E j \in 1..Len(posts[1].services[i].subServices) :
            DOMAIN posts[1].services[i].subServices[j].calculationComponents # {}

LastResp == resps[Len(resps)]

WellShaped(resp) ==
  resp.parses /\ resp.statusCode = 201 /\ resp.hasBody /\ resp.savedKey # ""

\* C3: a link is returned only if the last POST returned 2xx and its response
\* parses to statusCode 201 with a body holding a non-empty savedKey, and the link
\* is https://calculator.aws/#/estimate?id=<savedKey>; two non-2xx responses give
\* an error carrying both statuses and both bodies; a 2xx response of the wrong
\* shape is an error and no POST follows it.
C3_LinkOnlyFromSavedKey ==
  /\ outcome.kind = "link" =>
       /\ Len(resps) >= 1
       /\ LastResp.status >= 200 /\ LastResp.status <= 299
       /\ WellShaped(LastResp)
       /\ outcome.link = "https://calculator.aws/#/estimate?id=" \o LastResp.savedKey
  /\ (Len(resps) = 2 /\ ~(resps[2].status \in 200..299)) =>
       /\ outcome.kind = "SaveError"
       /\ outcome.firstStatus = resps[1].status /\ outcome.firstBody = resps[1].text
       /\ outcome.retryStatus = resps[2].status /\ outcome.retryBody = resps[2].text
  /\ \A r \in 1..Len(resps) :
       (resps[r].status \in 200..299 /\ ~WellShaped(resps[r])) =>
         /\ pc = "done"
         /\ Len(posts) = r
         /\ outcome.kind \in {"SyntaxError", "UnexpectedResponse", "NoSavedKey"}
         /\ outcome.link = ""

C3_Witness ==
  /\ outcome.kind = "link"
  /\ outcome.link = "https://calculator.aws/#/estimate?id=abc-123"
  /\ Len(resps) = 2

RetrySucceeded == pc = "done" /\ Len(posts) = 2 /\ outcome.kind = "link"

\* C4 as stated: after a rejected first POST and a successful retry the warnings
\* name every top-level service and carry the first error body cut to 200.
C4_Original ==
  RetrySucceeded =>
    /\ outcome.warned
    /\ outcome.affected = [i \in 1..Len(posts[1].services) |-> posts[1].services[i].serviceName]
    /\ outcome.rejectedBody.id = resps[1].text.id
    /\ outcome.rejectedBody.len <= 200

HadComponents(e) == DOMAIN e.calculationComponents # {}

\* C4 (amended): after a rejected first POST and a successful retry the returned
\* text holds the link and warnings that carry the first error body cut to at
\* most 200 characters and name, in order, the top-level services whose
\* calculationComponents were non-empty before the strip (a service that had
\* none is stripped too but is not named).
C4_WarningsNameStripped ==
  RetrySucceeded =>
    /\ outcome.link # ""
    /\ outcome.warned
    /\ LET had == SelectSeq(posts[1].services, HadComponents)
       IN outcome.affected = [i \in 1..Len(had) |-> had[i].serviceName]
    /\ outcome.rejectedStatus = resps[1].status
    /\ outcome.rejectedBody.id = resps[1].text.id
    /\ outcome.rejectedBody.len <= 200
    /\ outcome.rejectedBody.len = IF resps[1].text.len <= 200 THEN resps[1].text.len ELSE 200

C4_Witness ==
  /\ RetrySucceeded
  /\ Len(posts[1].services) = 2
  /\ Len(outcome.affected) = 1
  /\ resps[1].text.len > 200
  /\ outcome.rejectedBody.len = 200

\* The entry of service i in the document sent first.
Sent(i) == posts[1].services[i]

C6_Original ==
  Len(posts) >= 1 =>
    \A i \in 1..Len(services) :
      /\ services[i].monthlyCost # 0 =>
           /\ ~log[i].invoked
           /\ Sent(i).serviceCost =
                [monthly |-> services[i].monthlyCost, upfront |-> services[i].upfrontCost]
      /\ services[i].monthlyCost = 0 =>
           /\ log[i].invoked
           /\ ~log[i].result.null =>
                Sent(i).serviceCost =
                  [monthly |-> log[i].result.monthly, upfront |-> log[i].result.upfront]
           /\ log[i].result.null => Sent(i).serviceCost = [monthly |-> 0, upfront |-> 0]

\* C6 (amended): a non-zero monthlyCost is stored with the supplied upfront cost
\* and the evaluator is not invoked; for an omitted or zero monthlyCost the
\* evaluator is invoked, serviceCost.monthly is its monthly result and
\* serviceCost.upfront is the supplied upfrontCost when that is non-zero and its
\* upfront result otherwise; when the evaluator returns null the service keeps
\* monthly 0 and the supplied upfrontCost, and no warning is emitted (warnings
\* come from the save fallback only).
C6_AutoCalculatedCost ==
  \A i \in 1..Len(services) :
    LET cost == svcMap[i].serviceCost
    IN /\ services[i].monthlyCost # 0 =>
            /\ ~log[i].invoked
            /\ cost = [monthly |-> services[i].monthlyCost, upfront |-> services[i].upfrontCost]
       /\ services[i].monthlyCost = 0 =>
            /\ log[i].invoked
            /\ ~log[i].result.null =>
                 /\ cost.monthly = log[i].result.monthly
                 /\ cost.upfront = IF services[i].upfrontCost # 0
                                   THEN services[i].upfrontCost
                                   ELSE log[i].result.upfront
            /\ log[i].result.null =>
                 cost = [monthly |-> 0, upfront |-> services[i].upfrontCost]
       /\ outcome.warned => Len(posts) = 2

C6_Witness ==
  /\ pc = "done"
  /\ Len(posts) = 1
  /\ ~outcome.warned
  /\ \E i \in 1..Len(services) :
       /\ services[i].monthlyCost = 0 /\ services[i].upfrontCost = 0
       /\ log[i].invoked /\ ~log[i].result.null
       /\ svcMap[i].serviceCost = [monthly |-> 7, upfront |-> 2]
  /\ \E i \in 1..Len(services) :
       /\ services[i].monthlyCost = 0
       /\ log[i].invoked /\ log[i].result.null
       /\ svcMap[i].serviceCost = [monthly |-> 0, upfront |-> 3]

\* The fields with options that the definition of service i declares under key k.
OptionFields(i, k) ==
  LET inputs == extractInputs(ServiceDef(services[i].serviceCode).templates)
  IN {inputs[n] : n \in {m \in 1..Len(inputs) :
                           inputs[m].id = k /\ inputs[m].options # <<>>}}

\* The user's calculationComponents of service i.
UserCC(i) == OrEmpty(services[i].calculationComponents)

C11_EvaluatorRegionIsPersisted ==
  \A i \in 1..Len(svcMap) :
    (log[i].invoked /\ ~log[i].result.null) => log[i].pricedRegion = svcMap[i].regionName

\* The sub-service references of the definition of service i.
SubRefs(i) == ServiceDef(services[i].serviceCode).subServices

\* The calculationComponents made of the meaningful defaults of a definition.
DefaultsOf(code) ==
  LET inputs == extractInputs(ServiceDef(code).templates)
  IN [id \in DefaultIds(inputs) |-> DefaultEntry(inputs, id)]

\* The subServices of entry e are one record per reference of service i, in
\* definition order, with zero cost, the parent's region and defaults only.
SubServicesFromDefaults(e, i) ==
  /\ Len(e.subServices) = Len(SubRefs(i))
  /\ \A j \in 1..Len(SubRefs(i)) :
       /\ e.subServices[j].serviceCode = SubRefs(i)[j]
       /\ e.subServices[j].serviceCost = [monthly |-> 0, upfront |-> 0]
       /\ e.subServices[j].region = services[i].region
       /\ e.subServices[j].calculationComponents =
            IF log[i].subOk[j] THEN DefaultsOf(SubRefs(i)[j]) ELSE EmptyMap

Regionless(subs) == [j \in 1..Len(subs) |-> [subs[j] EXCEPT !.region = ""]]

\* C12 as stated: the persisted entry (the document of the accepted POST) of a
\* service whose definition declares sub-services has one record per reference
\* with zero cost, the parent's region and the sub-definition's defaults.
C12_Original ==
  outcome.kind = "link" =>
    \A i \in 1..Len(services) :
      (log[i].defOk /\ SubRefs(i) # <<>>) =>
        SubServicesFromDefaults(posts[Len(posts)].services[i], i)

\* C12 (amended): when the definition of a service is fetched and declares
\* sub-services, the entry that create_estimate assembles and sends with the
\* first POST has exactly one subServices record per sub-service reference, in
\* definition order; each record has serviceCost {monthly: 0, upfront: 0}, the
\* parent's region and, as calculationComponents, the sub-definition's
\* meaningful defaults only (empty when that definition cannot be fetched), so
\* that two services that differ in the user's calculationComponents get the
\* same sub-service components; the stripped retry persists the same records
\* with empty calculationComponents.
C12_SubServicesFromDefaults ==
  /\ \A i \in 1..Len(svcMap) :
       (log[i].defOk /\ SubRefs(i) # <<>>) =>
         /\ SubServicesFromDefaults(IF Len(posts) >= 1 THEN Sent(i) ELSE svcMap[i], i)
         /\ Len(posts) = 2 =>
              /\ Len(posts[2].services[i].subServices) = Len(SubRefs(i))
              /\ \A j \in 1..Len(SubRefs(i)) :
                   /\ DOMAIN posts[2].services[i].subServices[j].calculationComponents = {}
                   /\ posts[2].services[i].subServices[j].serviceCode = SubRefs(i)[j]
                   /\ posts[2].services[i].subServices[j].serviceCost =
                        [monthly |-> 0, upfront |-> 0]
  /\ Len(posts) = 1 =>
       \A i, n \in 1..Len(services) :
         /\ services[i].serviceCode = services[n].serviceCode
         /\ log[i].defOk /\ log[n].defOk
         /\ log[i].subOk = log[n].subOk
         => Regionless(Sent(i).subServices) = Regionless(Sent(n).subServices)

C12_Witness ==
  /\ outcome.kind = "link"
  /\ Len(posts) = 1
  /\ Len(services) = 2
  /\ services[1].serviceCode = "amazonS3" /\ services[2].serviceCode = "amazonS3"
  /\ UserCC(1) # UserCC(2)
  /\ "storageClass" \in DOMAIN UserCC(1)
  /\ log[1].subOk = <<TRUE, FALSE>> /\ log[2].subOk = <<TRUE, FALSE>>
  /\ Sent(1).subServices[1].calculationComponents =
       [k \in {"requests"} |-> [w |-> TRUE, val |-> Num("1000"), unit |-> "per month"]]
  /\ DOMAIN Sent(1).subServices[2].calculationComponents = {}
  /\ Sent(2).subServices[1].calculationComponents = Sent(1).subServices[1].calculationComponents


\* ------------------------------------------------- claims: the caches

ManifestFetches(fs) == {f \in 1..Len(fs) : fs[f].url = ManifestUrl}

Searching(cs) == {p \in DOMAIN cs : cs[p].tool = "search_services"}

\* C13: the manifest is fetched lazily by the first search_services call (no
\* manifest GET and an empty slot before it, one GET issued by it); once a
\* manifest fetch has succeeded no call issues another manifest GET; a failed
\* fetch is not left in the slot, and a call that finds the slot empty issues a
\* new GET; a slot that holds a fetch is cleared only by the failure of that
\* same fetch.
C13_ManifestSlot ==
  /\ [](/\ Searching(calls) = {} => (ManifestFetches(fetches) = {} /\ manifestCache = 0)
        /\ \A f \in ManifestFetches(fetches) : fetches[f].state = "failed" => manifestCache # f
        /\ manifestCache # 0 => manifestCache \in ManifestFetches(fetches))
  /\ [][/\ ManifestFetches(fetches') # ManifestFetches(fetches) =>
             /\ \A f \in ManifestFetches(fetches) : fetches[f].state = "failed"
             /\ manifestCache = 0
             /\ manifestCache' = Len(fetches')
        /\ (Searching(calls') # Searching(calls) /\ manifestCache = 0) =>
             /\ ManifestFetches(fetches') = ManifestFetches(fetches) \cup {Len(fetches) + 1}
        /\ (Searching(calls') # Searching(calls) /\ manifestCache # 0) =>
             /\ fetches' = fetches
             /\ manifestCache' = manifestCache
        /\ (manifestCache # 0 /\ manifestCache' # manifestCache) =>
             /\ manifestCache' = 0
             /\ fetches[manifestCache].state = "pending"
             /\ fetches'[manifestCache].state = "failed"]_vars

C13_Witness ==
  /\ Cardinality(ManifestFetches(fetches)) = 2
  /\ \E f \in ManifestFetches(fetches) : fetches[f].state = "failed"
  /\ manifestCache # 0
  /\ fetches[manifestCache].state = "ok"
  /\ \A p \in DOMAIN calls : calls[p].pc = "done" /\ calls[p].tool = "search_services"
  /\ \E p \in DOMAIN calls : \E r \in calls[p].results : r.kind = "ok"

\* C14: once the definition of a serviceCode has been fetched successfully, no
\* further GET is issued for that URL.
C14_DefinitionFetchedOnce ==
  [][\A f \in (1..Len(fetches')) \ (1..Len(fetches)) :
       fetches'[f].url.kind = "def" =>
         ~\E e \in 1..Len(fetches) :
            fetches[e].url = fetches'[f].url /\ fetches[e].state = "ok"]_vars

\* Call q asked for the key of result rq while call p was awaiting it.
Raced(p, rp, q, rq) ==
  /\ p # q
  /\ rp.key = rq.key
  /\ rp.key.kind \in {"manifest", "pricing"}
  /\ p \in rq.rivals

\* C15: two calls that race on a cold key (the manifest, or the price table of
\* one mapping name and region) both observe the same fetched result or both
\* observe the failure of the earlier fetch, and a price-table slot is written at
\* most once.
C15_RacingCallsAgree ==
  /\ \A p, q \in DOMAIN calls :
       \A rp \in calls[p].results, rq \in calls[q].results :
         Raced(p, rp, q, rq) =>
           \/ rp.kind = "ok" /\ rq.kind = "ok"
           \/ rp.kind = "failed" /\ rq.kind = "failed"
  /\ \A k \in PricingKeys : pricingWrites[k] <= 1


\* ------------------------------------------------- claims: groups and keys

\* The distinct non-empty group names of the input services, in input order.
GroupNames == {services[i].group : i \in 1..Len(services)} \ {""}

\* The keys of the services given the group name g, in input order.
RECURSIVE KeysOfGroup(_, _, _)
KeysOfGroup(svcs, entries, g) ==
  IF svcs = <<>> THEN <<>>
  ELSE (IF Head(svcs).group = g THEN <<Head(entries).key>> ELSE <<>>)
       \o KeysOfGroup(Tail(svcs), Tail(entries), g)

\* C16: in every document create_estimate assembles there is exactly one group
\* per distinct non-empty group name of the input services; its services list
\* is the keys of the services given that name, in input order; every listed
\* key is a key of the services map, no key is in two groups, a service without
\* a group is in none; the service keys are pairwise distinct, one entry per
\* input service even when serviceCodes repeat.
C16_GroupsPartitionKeys ==
  \A d \in 1..Len(posts) :
    LET doc == posts[d]
        keys == {doc.services[i].key : i \in 1..Len(doc.services)}
    IN /\ Len(doc.services) = Len(services)
       /\ \A i, j \in 1..Len(doc.services) : doc.services[i].key = doc.services[j].key => i = j
       /\ {doc.groups[g].name : g \in 1..Len(doc.groups)} = GroupNames
       /\ \A g, h \in 1..Len(doc.groups) :
            /\ doc.groups[g].name = doc.groups[h].name => g = h
            /\ doc.groups[g].id = doc.groups[h].id => g = h
            /\ g # h => \A a \in 1..Len(doc.groups[g].services) :
                          \A b \in 1..Len(doc.groups[h].services) :
                            doc.groups[g].services[a] # doc.groups[h].services[b]
       /\ \A g \in 1..Len(doc.groups) :
            /\ doc.groups[g].services = KeysOfGroup(services, doc.services, doc.groups[g].name)
            /\ \A a \in 1..Len(doc.groups[g].services) : doc.groups[g].services[a] \in keys
       /\ \A i \in 1..Len(services) :
            services[i].group = "" =>
              \A g \in 1..Len(doc.groups) :
                \A a \in 1..Len(doc.groups[g].services) :
                  doc.groups[g].services[a] # doc.services[i].key

C16_Witness ==
  /\ Len(posts) >= 1
  /\ Len(services) = 2
  /\ services[1].serviceCode = services[2].serviceCode
  /\ services[1].group = "storage" /\ services[2].group = "storage"
  /\ Len(posts[1].groups) = 1
  /\ posts[1].groups[1].services = <<posts[1].services[1].key, posts[1].services[2].key>>


\* ------------------------------------------------- claims: the pricing engine

\* The number each value of the pool stands for; 0 for a missing or
\* non-numeric one.
NumericValue(x) ==
  CASE x = Num("0") -> Rat(0, 1) [] x = Num("1") -> Rat(1, 1) [] x = Num("3") -> Rat(3, 1)
    [] x = Num("512") -> Rat(512, 1) [] x = Num("0.5") -> Rat(1, 2)
    [] x = Num("-2") -> Rat(-2, 1) [] x = Str("7") -> Rat(7, 1)
    [] OTHER -> Rat(0, 1)

\* The factors the claim lists: to gigabytes and to per-month.
ClaimedFactor(subType, unit) ==
  CASE subType = "fileSize" /\ unit = "KB" -> Rat(1, 1048576)
    [] subType = "fileSize" /\ unit = "MB" -> Rat(1, 1024)
    [] subType = "fileSize" /\ unit = "GB" -> Rat(1, 1)
    [] subType = "fileSize" /\ unit = "TB" -> Rat(1024, 1)
    [] subType = "frequency" /\ unit = "per second" -> Rat(2592000, 1)
    [] subType = "frequency" /\ unit = "per minute" -> Rat(43200, 1)
    [] subType = "frequency" /\ unit = "per hour" -> Rat(720, 1)
    [] subType = "frequency" /\ unit = "per day" -> Rat(30, 1)
    [] subType = "frequency" /\ unit = "per week" -> Rat(30, 7)
    [] subType = "frequency" /\ unit = "per month" -> Rat(1, 1)
    [] subType = "frequency" /\ unit = "per year" -> Rat(1, 12)
    [] OTHER -> Rat(1, 1)

FileSizeUnits == {"KB", "MB", "GB", "TB"}
FrequencyUnits ==
  {"per second", "per minute", "per hour", "per day", "per week", "per month", "per year"}

\* C19: normalizeValue multiplies a fileSize value by its factor to gigabytes
\* and a frequency value by its factor to per-month; for a fixed unit it is
\* monotonic non-decreasing in the value; equal quantities given in different
\* fileSize units normalize to the same number; any other subtype yields the
\* plain numeric value; a missing or non-numeric value yields 0.
C19_NormalizeValue ==
  ePhase = "normalized" =>
    LET v == NumericValue(vRaw.val)
        sized == \/ vSubType = "fileSize" /\ vRaw.unit \in FileSizeUnits
                 \/ vSubType = "frequency" /\ vRaw.unit \in FrequencyUnits
    IN /\ (vRaw.w /\ sized) => vOut = RMul(v, ClaimedFactor(vSubType, vRaw.unit))
       /\ vSubType \notin {"fileSize", "frequency"} => vOut = v
       /\ v = Rat(0, 1) => vOut = Rat(0, 1)
       /\ \A y \in ValuePool :
            RLe(NumericValue(y), v) => RLe(normalizeValue(vSubType, [vRaw EXCEPT !.val = y]), vOut)
       /\ (vRaw.w /\ vSubType = "fileSize" /\ vRaw.unit \in FileSizeUnits) =>
            \A y \in ValuePool, u \in FileSizeUnits :
              RMul(NumericValue(y), ClaimedFactor("fileSize", u)) =
                RMul(v, ClaimedFactor("fileSize", vRaw.unit))
              => normalizeValue("fileSize", Wrapped(y, u)) = vOut

C19_Witness ==
  /\ ePhase = "normalized"
  /\ vSubType = "fileSize"
  /\ vRaw = Wrapped(Num("512"), "MB")
  /\ vOut = Rat(1, 2)
  /\ vOut = normalizeValue("fileSize", Wrapped(Num("0.5"), "GB"))


\* The units charged to the first k tiers, and their cost.
RECURSIVE UnitsUpTo(_, _)
UnitsUpTo(charged, k) == IF k = 0 THEN Zero ELSE RAdd(UnitsUpTo(charged, k - 1), charged[k])

RECURSIVE CostUpTo(_, _, _)
CostUpTo(charged, tiers, k) ==
  IF k = 0 THEN Zero
  ELSE RAdd(CostUpTo(charged, tiers, k - 1), RMul(charged[k], tiers[k].price))

\* C17: tieredPricingMath charges the quantity to the tiers in list order:
\* each tier receives min(remaining, end - start) units (all that remains when
\* end is -1) at its own price; a later tier is charged only after every
\* earlier tier is full; the units charged in total never exceed a positive
\* quantity and equal it when the last tier is unbounded; a quantity of 0 or
\* less costs 0.
C17_TieredPricingMath ==
  ePhase = "tiered" =>
    LET q == NumberOrZero(tQty)
        n == Len(tTiers)
        left(i) == RSub(q, UnitsUpTo(tCharged, i - 1))
    IN /\ Len(tCharged) = n
       /\ RLt(Zero, q) =>
            /\ \A i \in 1..n :
                 tCharged[i] =
                   IF RLe(left(i), Zero) THEN Zero
                   ELSE IF tTiers[i].end = -1 THEN left(i)
                   ELSE RMin(left(i), Whole(tTiers[i].end - tTiers[i].start))
            /\ \A i \in 1..n : \A j \in (i + 1)..n :
                 tCharged[j] # Zero =>
                   /\ tTiers[i].end # -1
                   /\ tCharged[i] = Whole(tTiers[i].end - tTiers[i].start)
            /\ RLe(UnitsUpTo(tCharged, n), q)
            /\ (n > 0 /\ tTiers[n].end = -1) => UnitsUpTo(tCharged, n) = q
       /\ tOut = CostUpTo(tCharged, tTiers, n)
       /\ RLe(q, Zero) => tOut = Zero /\ UnitsUpTo(tCharged, n) = Zero

\* 3 units over {0..2 at 1/2} then {3.. at 3}: 2 units at 1/2 and 1 unit at 3.
C17_Witness ==
  /\ ePhase = "tiered"
  /\ tQty = Num("3")
  /\ tTiers = <<Tier(0, 2, Rat(1, 2)), Tier(3, -1, Whole(3))>>
  /\ tCharged = <<Whole(2), Whole(1)>>
  /\ tOut = Whole(4)


\* ---------------------------------------------------- claims: load_estimate

\* C20: for every non-empty id over [A-Za-z0-9-], the id extraction returns
\* that id when the argument is the bare id and when it is a shareable link
\* that embeds it as #/estimate?id=<id>.
C20_IdExtraction ==
  ePhase = "extracted" => iOut = iId

C20_Witness ==
  /\ ePhase = "extracted"
  /\ iId = "a-B"
  /\ iArg = "https://calculator.aws/#/estimate?id=a-B"
  /\ iOut = "a-B"


\* ------------------------------------------------- claims: the evaluator

\* The values of the displays of a list whose costType is in the set.
RECURSIVE ValuesOf(_, _)
ValuesOf(displays, costTypes) ==
  IF displays = <<>> THEN Zero
  ELSE RAdd(IF Head(displays).costType \in costTypes THEN Head(displays).value ELSE Zero,
            ValuesOf(Tail(displays), costTypes))

\* The sum of ValuesOf over the first k evaluated definitions.
RECURSIVE ValuesUpTo(_, _, _)
ValuesUpTo(evaluated, k, costTypes) ==
  IF k = 0 THEN Zero
  ELSE RAdd(ValuesUpTo(evaluated, k - 1, costTypes),
            ValuesOf(evaluated[k].priceDisplays, costTypes))

CostTypes == {"Monthly", "Upfront"}

NoMathSections(code) ==
  \A t \in 1..Len(ServiceDef(code).templates) :
    \A c \in 1..Len(ServiceDef(code).templates[t].cards) :
      ~ServiceDef(code).templates[t].cards[c].hasMaths

\* C18: the evaluator's result is monthly = max(0, sum of the collected
\* priceDisplay values whose costType is not "Upfront") and upfront = max(0,
\* sum of those whose costType is "Upfront"), the sums running over the parent
\* definition and every sub-service definition that was fetched, each priced
\* in the region of the call; so neither amount is negative, and when no
\* evaluated definition has a math section the result is {monthly: 0,
\* upfront: 0}.
C18_EvaluatorResult ==
  (ePhase = "priced" /\ ~cOut.null) =>
    LET def == ServiceDef(cArgs.serviceCode)
        n == Len(cOut.evaluated)
        subs == {def.subServices[i] : i \in {j \in DOMAIN cArgs.subOk : cArgs.subOk[j]}}
        monthly == ValuesUpTo(cOut.evaluated, n, CostTypes \ {"Upfront"})
        upfront == ValuesUpTo(cOut.evaluated, n, {"Upfront"})
    IN /\ {cOut.evaluated[i].serviceCode : i \in 1..n} = subs \cup {cArgs.serviceCode}
       /\ n = Cardinality(subs) + 1
       /\ \A i \in 1..n : cOut.evaluated[i].regionName = EvaluatorRegionName(cArgs.region)
       /\ \A i \in 1..n : \A k \in 1..Len(cOut.evaluated[i].priceDisplays) :
            cOut.evaluated[i].priceDisplays[k].costType \in CostTypes
       /\ cOut.monthly = (IF RLe(Zero, monthly) THEN monthly ELSE Zero)
       /\ cOut.upfront = (IF RLe(Zero, upfront) THEN upfront ELSE Zero)
       /\ RLe(Zero, cOut.monthly) /\ RLe(Zero, cOut.upfront)
       /\ (\A i \in 1..n : NoMathSections(cOut.evaluated[i].serviceCode))
            => cOut.monthly = Zero /\ cOut.upfront = Zero

\* pricedService with its defaults in us-east-1: the parent shows 3/2 and 3 a
\* month and -1 upfront, its sub-service -5/2 a month; 2 a month, 0 upfront.
C18_Witness ==
  /\ ePhase = "priced"
  /\ cArgs.serviceCode = "pricedService"
  /\ cArgs.region = "us-east-1"
  /\ cArgs.userInputs = EmptyMap
  /\ cArgs.subOk = <<TRUE, TRUE>>
  /\ cArgs.outcome = "listed"
  /\ Len(cOut.evaluated) = 3
  /\ ValuesUpTo(cOut.evaluated, 3, {"Upfront"}) = Whole(-1)
  /\ cOut.monthly = Whole(2)
  /\ cOut.upfront = Zero


\* C21: load_estimate returns a summary and the full document only when the
\* load GET returns 2xx and the trimmed body does not start with '<' and parses
\* as JSON; for a non-2xx status, a body that starts with '<' and a body that
\* does not parse it fails with an error that mentions the estimate id and
\* returns no summary.
C21_LoadEstimate ==
  ePhase = "loaded" =>
    LET resp == eArgs.resp
        usable == /\ ~resp.threw
                  /\ resp.status >= 200 /\ resp.status <= 299
                  /\ ~StartsWith(TrimStart(resp.text), "<")
                  /\ resp.parses
    IN /\ eOut.kind = "content" => usable /\ eOut.full = resp.doc
       /\ ~usable =>
            /\ eOut.kind = "Error"
            /\ eOut.id = eArgs.id
            /\ eOut.summary = NoSummary

\* An XML answer with status 200, the id given inside a share link.
C21_Witness ==
  /\ ePhase = "loaded"
  /\ eArgs.id = "a-"
  /\ eArgs.estimateId = "https://calculator.aws/#/estimate?id=a-"
  /\ eArgs.resp = LoadResp(200, "\n  <Error/>", FALSE, NullDoc)
  /\ eOut = LoadError(eArgs.estimateId, "a-", "Estimate not found or access denied")

C21_Loaded ==
  /\ ePhase = "loaded"
  /\ eArgs.resp = LoadResp(200, " \n{\"name\":\"My Estimate\"}\n", TRUE, StoredDoc)
  /\ eOut.kind = "content"
  /\ eOut.summary.services[1].editStatus = "editable"

\* ------------------------------------------------ claims: the maths sections

\* The definition with the maths of every template after the first removed.
FirstMathsOnly(d) ==
  [d EXCEPT !.templates =
     [t \in 1..Len(d.templates) |->
        IF t = 1 THEN d.templates[t]
        ELSE [d.templates[t] EXCEPT !.cards =
                [i \in 1..Len(@) |-> [@[i] EXCEPT !.hasMaths = FALSE, !.mathsSection = <<>>]]]]]

\* The state after the first k components of a card's section, the card being
\* entered with the context ctx.
AfterOps(flat, k, ctx, pricingByDef) ==
  ExecuteComps(SubSeq(flat, 1, k), [ctx |-> ctx, priceDisplays |-> <<>>], pricingByDef)

SubTypeOf(comp) == IF comp.subType # "" THEN comp.subType ELSE comp.type

\* The k-th component acts on the state the first k - 1 left: a basicMaths
\* writes its slot from operands read there, a priceDisplay records the number
\* its slot holds there.
OperatorInOrder(comp, before, after) ==
  IF SubTypeOf(comp) = "basicMaths"
  THEN /\ after.priceDisplays = before.priceDisplays
       /\ after.ctx =
            PutVal(before.ctx, comp.id,
                   NumV(FoldValues(comp.operation,
                                   [i \in 1..Len(comp.operands) |->
                                      IF comp.operands[i].kind = "variableId"
                                      THEN CtxNumber(before.ctx, comp.operands[i].ref)
                                      ELSE NumberOrZero(comp.operands[i].lit)])))
  ELSE /\ after.ctx = before.ctx
       /\ after.priceDisplays =
            Append(before.priceDisplays,
                   [costType |-> IF comp.costType = "" THEN "Monthly" ELSE comp.costType,
                    value |-> IF comp.subTotalRefer \in DOMAIN before.ctx.vals
                              THEN CtxNumber(before.ctx, comp.subTotalRefer) ELSE Zero])

\* The i-th card acts on the context the first i - 1 cards left, its operators
\* one after the other, and its displays follow those collected before.
CardInOrder(card, before, after, pricingByDef) ==
  (card.hasMaths /\ evalDisplayIf(card.displayIf, before.ctx, pricingByDef)) =>
    /\ \A k \in 1..Len(FlattenOps(card.mathsSection)) :
         evalDisplayIf(FlattenOps(card.mathsSection)[k].displayIf,
                       AfterOps(FlattenOps(card.mathsSection), k - 1, before.ctx,
                                pricingByDef).ctx,
                       pricingByDef)
           => OperatorInOrder(FlattenOps(card.mathsSection)[k],
                              AfterOps(FlattenOps(card.mathsSection), k - 1, before.ctx,
                                       pricingByDef),
                              AfterOps(FlattenOps(card.mathsSection), k, before.ctx,
                                       pricingByDef))
    /\ after =
         Collected(before,
                   AfterOps(FlattenOps(card.mathsSection),
                            Len(FlattenOps(card.mathsSection)), before.ctx, pricingByDef))

\* The state after the first i cards, start being the resolved context with no
\* display collected.
AfterCards(cards, i, start, pricingByDef) ==
  EvaluateCards(SubSeq(cards, 1, i), start, pricingByDef)

Resolved(d, c, pricingByDef) ==
  [ctx |-> resolveAllComponents(d, pricingByDef, c), priceDisplays |-> <<>>]

CardsInOrder(cards, start, pricingByDef, result) ==
  /\ result = AfterCards(cards, Len(cards), start, pricingByDef)
  /\ \A i \in 1..Len(cards) :
       CardInOrder(cards[i], AfterCards(cards, i - 1, start, pricingByDef),
                   AfterCards(cards, i, start, pricingByDef), pricingByDef)

\* C22: math evaluation runs only the cards of the first template, in card
\* order and, within a mathsSection, in operator order over one shared
\* context: an operator reads the context as the earlier operators left it (a
\* slot not written yet reads as 0), a priceDisplay records the value its
\* subTotalRefer slot has when it is evaluated, and the math sections of the
\* other templates never affect the result.
C22_FirstTemplateInOrder ==
  ePhase = "evaluated" =>
    /\ eOut = EvaluateTemplates(FirstMathsOnly(eArgs.def), eArgs.cc, eArgs.pricingByDef)
    /\ CardsInOrder(eArgs.def.templates[1].cards,
                    Resolved(eArgs.def, eArgs.cc, eArgs.pricingByDef), eArgs.pricingByDef, eOut)

\* a = a + units + 1 twice around a display of a, with units = 2: the display records 3 while the slot ends as 6; the last card
\* reads b, never written, as 0 and displays 6; the 100 of the second template
\* is nowhere.
C22_Witness ==
  /\ ePhase = "evaluated"
  /\ eArgs.def.templates[2].cards[1].mathsSection = SecondMaths
  /\ eArgs.cc # EmptyMap
  /\ eArgs.def.templates[1].cards[3].displayIf = NoCond
  /\ eArgs.pricingByDef["s3"]["perUnit"] = Rat(1, 2)
  /\ FlattenOps(eArgs.def.templates[1].cards[1].mathsSection)
       = <<BasicMaths("a", "addition", <<Variable("a"), Variable("units"), Constant(Num("1"))>>),
           PriceDisplay("a", ""),
           BasicMaths("a", "addition", <<Variable("a"), Variable("units"), Constant(Num("1"))>>)>>
  /\ eOut.priceDisplays = <<[costType |-> "Monthly", value |-> Whole(3)],
                            [costType |-> "Monthly", value |-> Whole(6)]>>
  /\ eOut.ctx.vals["a"] = NumV(Whole(6))

\* The operators of a card whose displayIf fails on the context they meet
\* leave the state as it is.
SkippedOperatorsKeep(flat, ctx, pricingByDef) ==
  \A k \in 1..Len(flat) :
    (flat[k].displayIf # NoCond
       /\ ~evalDisplayIf(flat[k].displayIf, AfterOps(flat, k - 1, ctx, pricingByDef).ctx,
                         pricingByDef))
      => AfterOps(flat, k, ctx, pricingByDef) = AfterOps(flat, k - 1, ctx, pricingByDef)

\* A card with maths whose displayIf fails on the context the earlier cards
\* left leaves the state as it is.
SkippedCardKeeps(card, before, after, pricingByDef) ==
  card.hasMaths =>
    IF card.displayIf # NoCond /\ ~evalDisplayIf(card.displayIf, before.ctx, pricingByDef)
    THEN after = before
    ELSE SkippedOperatorsKeep(FlattenOps(card.mathsSection), before.ctx, pricingByDef)

SkippedKeep(cards, start, pricingByDef) ==
  \A i \in 1..Len(cards) :
    SkippedCardKeeps(cards[i], AfterCards(cards, i - 1, start, pricingByDef),
                     AfterCards(cards, i, start, pricingByDef), pricingByDef)

\* C23: a math operator whose displayIf evaluates to false writes nothing to
\* the context and appends no priceDisplay, and a card whose displayIf
\* evaluates to false has none of its operators executed: every slot keeps the
\* value it had before the skipped operator or card.
C23_SkippedKeepsContext ==
  ePhase = "evaluated" =>
    SkippedKeep(eArgs.def.templates[1].cards,
                Resolved(eArgs.def, eArgs.cc, eArgs.pricingByDef), eArgs.pricingByDef)

\* With units = 2 the slot a becomes 3, so the subtraction guarded by a == 1 is
\* skipped, and the table of EU (Ireland) lists no premium unit, so the guarded
\* display is skipped; the last card, guarded by a == 1, is skipped as a whole:
\* a stays 3 and nothing is displayed.
C23_Witness ==
  /\ ePhase = "evaluated"
  /\ eArgs.cc # EmptyMap
  /\ "premium" \notin DOMAIN eArgs.pricingByDef["s3"]
  /\ eArgs.def.templates[1].cards[3].displayIf = Equals("a", Num("1"))
  /\ FlattenOps(eArgs.def.templates[1].cards[1].mathsSection)
       = <<BasicMaths("a", "addition", <<Variable("a"), Variable("units"), Constant(Num("1"))>>),
           [BasicMaths("a", "subtraction", <<Constant(Num("10")), Variable("a")>>) EXCEPT
              !.displayIf = Equals("a", Num("1"))],
           [PriceDisplay("a", "Monthly") EXCEPT !.displayIf = Exists("s3", "premium")]>>
  /\ eOut.priceDisplays = <<>>
  /\ eOut.ctx.vals["a"] = NumV(Whole(3))

\* ------------------------------------------------------ claims: evalDisplayIf

\* String(x) of what a context slot holds, "undefined" for an absent slot.
SlotText(ctx, id) ==
  IF id \notin DOMAIN ctx.vals THEN "undefined"
  ELSE IF ctx.vals[id].t = "str" THEN ctx.vals[id].s
  ELSE NumberToString(ctx.vals[id].r)

\* C24: evalDisplayIf is true for an absent condition; for {exists: {type:
\* meteredUnit, ...}} it is true iff the price table of the named mapping
\* contains the metered unit, a missing table giving false; {and: [...]} is
\* true iff every member is, {or: [...]} iff some member is, {not: c} is the
\* negation of c; {"==": [left, right]} is true iff the string form of left
\* (the context value when left is a component reference) equals the string
\* form of right; every other shape is true.
C24_EvalDisplayIf ==
  ePhase = "shown" =>
    LET c == eArgs.condition
        member(i) == evalDisplayIf(c.args[i], eArgs.ctx, eArgs.pricingByDef)
    IN eOut =
         CASE c = NoCond -> TRUE
           [] c.op = "exists" /\ c.type = "meteredUnit" ->
                /\ c.mappingDefinitionName \in DOMAIN eArgs.pricingByDef
                /\ c.meteredUnit \in DOMAIN eArgs.pricingByDef[c.mappingDefinitionName]
           [] c.op = "and" -> \A i \in 1..Len(c.args) : member(i)
           [] c.op = "or" -> \E i \in 1..Len(c.args) : member(i)
           [] c.op = "not" -> ~member(1)
           [] c.op = "==" ->
                (IF c.left # "" THEN SlotText(eArgs.ctx, c.left)
                 ELSE ScalarToString(c.leftLiteral)) = ScalarToString(c.right)
           [] OTHER -> TRUE

\* Without any price table, not(exists premium in s3) holds while a is 1/2 and
\* not "undefined": the disjunction of the two is true through its first member
\* only.
C24_Witness ==
  /\ ePhase = "shown"
  /\ eArgs.pricingByDef = [n \in {} |-> NoPrices]
  /\ eArgs.ctx = PutVal(EmptyCtx, "a", NumV(Rat(1, 2)))
  /\ eArgs.condition = Not(Or(<<Exists("s3", "premium"), Equals("a", Str("undefined"))>>))
  /\ eOut = TRUE

\* --------------------------------------------------------- claims: basicMaths

\* The value of an operand of the pool: a constant, or the slot x (0 when x is
\* not there).
OperandNumber(operand, ctx) ==
  IF operand.kind = "variableId"
  THEN (IF operand.ref \in DOMAIN ctx.vals THEN ctx.vals[operand.ref].r ELSE Zero)
  ELSE ToNumber(operand.lit).val

\* The quotient of two fractions, b not 0: the q with q * b = a.
Quotient(a, b) ==
  CHOOSE q \in {Rat(sign * a.n * b.d, a.d * Abs(b.n)) : sign \in {1, -1}} : RMul(q, b) = a

\* The fold of the first k operands under one of the four operations, from the
\* left: the fold of the first k - 1 combined with the k-th.
RECURSIVE LeftFold(_, _, _, _)
LeftFold(operation, operands, k, ctx) ==
  IF k = 1 THEN OperandNumber(operands[1], ctx)
  ELSE LET sofar == LeftFold(operation, operands, k - 1, ctx)
           x == OperandNumber(operands[k], ctx)
       IN CASE operation = "multiplication" -> RMul(sofar, x)
            [] operation = "addition" -> RAdd(sofar, x)
            [] operation = "subtraction" -> RSub(sofar, x)
            [] operation = "division" -> IF x = Zero THEN Zero ELSE Quotient(sofar, x)

\* C26: basicMaths stores in context[id] the left-to-right fold of its operand
\* values under its operation: 0 with no operand, the operand itself with one,
\* a division step by 0 sets the running result to 0 and the fold goes on, and
\* an operation outside the four leaves the first operand as the result.
C26_BasicMaths ==
  ePhase = "folded" =>
    LET operands == eArgs.comp.operands
        operation == eArgs.comp.operation
    IN /\ eOut.priceDisplays = <<>>
       /\ DOMAIN eOut.ctx.vals = DOMAIN eArgs.ctx.vals \cup {"r"}
       /\ \A id \in DOMAIN eArgs.ctx.vals : eOut.ctx.vals[id] = eArgs.ctx.vals[id]
       /\ eOut.ctx.vals["r"] =
            NumV(IF operands = <<>> THEN Zero
                 ELSE IF operation \in {"multiplication", "addition", "subtraction", "division"}
                 THEN LeftFold(operation, operands, Len(operands), eArgs.ctx)
                 ELSE OperandNumber(operands[1], eArgs.ctx))

\* 6 / 0 / x with x = 2: the division by 0 gives 0 and 0 / 2 stays 0.  6 / x / 0.5
\* is 6.
C26_Witness ==
  /\ ePhase = "folded"
  /\ eArgs.ctx # EmptyCtx
  /\ eArgs.comp.operation = "division"
  /\ eArgs.comp.operands = <<Constant(Num("6")), Constant(Num("0")), Variable("x")>>
  /\ eOut.ctx.vals["r"] = NumV(Zero)

C26_Divided ==
  /\ ePhase = "folded"
  /\ eArgs.ctx # EmptyCtx
  /\ eArgs.comp.operation = "division"
  /\ eArgs.comp.operands = <<Constant(Num("6")), Variable("x"), Constant(Num("0.5"))>>
  /\ eOut.ctx.vals["r"] = NumV(Whole(6))

\* ----------------------------------------------- claims: resolveAllComponents

\* The pricing components of the definition of the call, in walk order.
PricingOf(def) == walkPricing(TemplateComps(def.templates))

\* The string form of a slot of the resolved context, an absent slot giving the
\* empty string.
TextOrEmpty(ctx, id) == IF id \in DOMAIN ctx.vals THEN SlotText(ctx, id) ELSE ""

RECURSIVE FirstReplaceString(_, _)
FirstReplaceString(replacements, text) ==
  IF replacements = <<>> THEN ""
  ELSE IF ScalarToString(Head(replacements).originalString) = text
  THEN Head(replacements).replaceString
  ELSE FirstReplaceString(Tail(replacements), text)

\* A pricingComboV2 holds the price of the unit its reference names.
CombosFollowReplaces(pricing, ctx, pricingByDef) ==
  \A k \in 1..Len(pricing) :
    (pricing[k].subType = "pricingComboV2" /\ pricing[k].refers \in DOMAIN ctx.vals
       /\ ctx.vals[pricing[k].refers].t = "str") =>
      ctx.vals[pricing[k].id] =
        NumV(IF pricing[k].mappingDefinitionName \in DOMAIN pricingByDef
                /\ ctx.vals[pricing[k].refers].s
                     \in DOMAIN pricingByDef[pricing[k].mappingDefinitionName]
             THEN pricingByDef[pricing[k].mappingDefinitionName][ctx.vals[pricing[k].refers].s]
             ELSE Zero)

\* C25 as stated: after pricing resolution, for every replace component with
\* an id, context[id] is the replaceString of the first replacement whose
\* originalString equals the string form of context[originalId], the empty
\* string when none matches, and a pricingComboV2 that refers to a replace
\* output looks that replaceString up as its metered unit.
C25_ReplaceOfFinalContext ==
  ePhase = "resolved" =>
    /\ \A k \in 1..Len(PricingOf(eArgs.def)) :
         LET c == PricingOf(eArgs.def)[k]
         IN (c.subType = "replace" /\ c.id # "") =>
              /\ c.id \in DOMAIN eOut.vals
              /\ eOut.vals[c.id]
                   = StrV(FirstReplaceString(c.replacements, TextOrEmpty(eOut, c.originalId)))
    /\ CombosFollowReplaces(PricingOf(eArgs.def), eOut, eArgs.pricingByDef)

\* The slot originalId of the k-th pricing component is written before that
\* component is resolved: it is a seeded input or the output of a replace
\* walked earlier.
WrittenBefore(pricing, k, cc) ==
  \/ pricing[k].originalId \in DOMAIN cc
  \/ \E j \in 1..(k - 1) :
       pricing[j].subType = "replace" /\ pricing[j].id = pricing[k].originalId

\* C25: after pricing resolution, for every replace component with an id,
\* context[id] is the replaceString of the first replacement whose
\* originalString equals the string form context[originalId] has when the
\* replace is resolved (that of the seeded input or of the output of a replace
\* walked earlier, and the empty string for a slot written later or never),
\* the empty string when none matches; every replace is resolved before any
\* singlePricePoint, pricingComboV2 or tieredPricing lookup, so a
\* pricingComboV2 that refers to a replace output looks that replaceString up
\* as its metered unit.
C25_ReplaceAtResolution ==
  ePhase = "resolved" =>
    /\ \A k \in 1..Len(PricingOf(eArgs.def)) :
         LET c == PricingOf(eArgs.def)[k]
         IN (c.subType = "replace" /\ c.id # "") =>
              /\ c.id \in DOMAIN eOut.vals
              /\ eOut.vals[c.id]
                   = StrV(FirstReplaceString(
                            c.replacements,
                            IF WrittenBefore(PricingOf(eArgs.def), k, eArgs.cc)
                            THEN TextOrEmpty(eOut, c.originalId) ELSE ""))
    /\ CombosFollowReplaces(PricingOf(eArgs.def), eOut, eArgs.pricingByDef)

\* replaceService with its defaults and the table of US East: units 3 gives
\* "perUnit" through the first of two replacements that match "3", the replace
\* over that output gives "premium" and the combo that refers to it the price
\* 3; the replace over unitPrice meets an empty slot although unitPrice ends as
\* 1/2.
C25_Witness ==
  /\ ePhase = "resolved"
  /\ eArgs.def = ServiceDef("replaceService")
  /\ DOMAIN eArgs.cc = {"storageClass", "units"}
  /\ eArgs.cc["units"].val = Num("3")
  /\ "premium" \in DOMAIN PriceMapOf(eArgs.pricingByDef, "s3")
  /\ eOut.vals["unitsUnit"] = StrV("perUnit")
  /\ eOut.vals["chainUnit"] = StrV("premium")
  /\ eOut.vals["chainPrice"] = NumV(Whole(3))
  /\ eOut.vals["unitPrice"] = NumV(Rat(1, 2))
  /\ eOut.vals["priceUnit"] = StrV("perUnit")

\* The dropdown fields of the call whose calculationComponents entry holds one
\* of the field's option values, a string.
ChosenDropdowns(inputs, cc) ==
  {i \in 1..Len(inputs) :
     /\ inputs[i].type = "dropdown"
     /\ inputs[i].id \in DOMAIN cc
     /\ cc[inputs[i].id].val.k = "str"
     /\ \E o \in 1..Len(inputs[i].options) : inputs[i].options[o].value = cc[inputs[i].id].val.v}

\* C30: the option value chosen for a dropdown input, a string given by the
\* user or by the field's default, is in the evaluation context under the
\* input's id as that same string, so a replace over that input takes the
\* replacement of the chosen option and a displayIf == over it holds for the
\* chosen option.
C30_DropdownStringSeeded ==
  ePhase = "resolved" =>
    \A i \in ChosenDropdowns(extractInputs(eArgs.def.templates), eArgs.cc) :
      LET id == extractInputs(eArgs.def.templates)[i].id
      IN /\ eOut.vals[id] = StrV(eArgs.cc[id].val.v)
         /\ evalDisplayIf(Equals(id, eArgs.cc[id].val), eOut, eArgs.pricingByDef)
         /\ \A k \in 1..Len(PricingOf(eArgs.def)) :
              (PricingOf(eArgs.def)[k].subType = "replace"
                 /\ PricingOf(eArgs.def)[k].originalId = id) =>
                eOut.vals[PricingOf(eArgs.def)[k].id]
                  = StrV(FirstReplaceString(PricingOf(eArgs.def)[k].replacements,
                                            eArgs.cc[id].val.v))

\* ------------------------------------------------- claims: the price tables

\* Every price the context holds out of the table of the mapping is 0.
PricesZero(pricing, name, ctx) ==
  \A k \in 1..Len(pricing) :
    pricing[k].mappingDefinitionName = name =>
      /\ pricing[k].subType \in {"singlePricePoint", "pricingComboV2"}
           => ctx.vals[pricing[k].id] = NumV(Zero)
      /\ pricing[k].subType = "tieredPricing"
           => \A t \in 1..Len(ctx.tiers[pricing[k].id]) : ctx.tiers[pricing[k].id][t].price = Zero

\* The context resolved from the definition's defaults over the tables.
DefaultContext(def, pricingByDef) ==
  resolveAllComponents(def, pricingByDef,
                       buildCalcComponents(extractInputs(def.templates), EmptyMap))

\* What the table of one mapping name is after the call.
TableSettled(name, key, args, out) ==
  /\ name \in DOMAIN out.pricingByDef
  /\ IF key \in DOMAIN args.cache
     THEN /\ name \notin out.requested
          /\ out.pricingByDef[name] = args.cache[key]
          /\ out.cache[key] = args.cache[key]
     ELSE /\ name \in out.requested
          /\ IF args.priceGets[name] = "failed"
             THEN /\ out.pricingByDef[name] = NoPrices
                  /\ key \notin DOMAIN out.cache
                  /\ PricesZero(PricingOf(args.def), name,
                                DefaultContext(args.def, out.pricingByDef))
             ELSE /\ key \in DOMAIN out.cache
                  /\ out.pricingByDef[name]
                       = (IF args.regionName \in DOMAIN PriceData(args.priceGets[name])
                          THEN PriceData(args.priceGets[name])[args.regionName] ELSE NoPrices)
                  /\ out.cache[key] = out.pricingByDef[name]

\* C27: a failed fetch of the price table of one mapping name does not fail
\* the evaluation: that table is empty and every singlePricePoint,
\* pricingComboV2 and tier price looked up in it is 0, the tables of the other
\* names are what their own fetch gave, and the failure is not stored in the
\* pricing cache, so the next invocation requests that table again.
C27_FailedTableIsEmpty ==
  ePhase \in {"fetched", "fetchedAgain"} =>
    \A name \in NameSet(MappingDefs(eArgs.def)) :
      /\ TableSettled(name, PricingKey(name, eArgs.regionName), eArgs, eOut)
      /\ (ePhase = "fetchedAgain" /\ eArgs.first.regionName = eArgs.regionName
            /\ eArgs.first.priceGets[name] = "failed") => name \in eOut.requested

\* The table s3 fails and tier succeeds in the first invocation; the next one,
\* in the same region, requests s3 alone and gets it: the s3 price is now 1/2
\* like the tier price.
C27_Witness ==
  /\ ePhase = "fetchedAgain"
  /\ eArgs.regionName = "US East (N. Virginia)"
  /\ eArgs.first = [regionName |-> "US East (N. Virginia)",
                    priceGets |-> [n \in {"s3", "tier"} |->
                                     IF n = "s3" THEN "failed" ELSE "listed"]]
  /\ DOMAIN eArgs.cache = {PricingKey("tier", "US East (N. Virginia)")}
  /\ eArgs.priceGets["s3"] = "listed"
  /\ eOut.requested = {"s3"}
  /\ DefaultContext(eArgs.def, eOut.pricingByDef).vals["s3Combo"] = NumV(Rat(1, 2))
  /\ DefaultContext(eArgs.def, eOut.pricingByDef).vals["tierPrice"] = NumV(Rat(1, 2))

\* The first invocation itself: s3 failed, its prices are 0 and the tier price
\* is 1/2.
C27_FirstFailed ==
  /\ ePhase = "fetched"
  /\ eArgs.regionName = "US East (N. Virginia)"
  /\ eArgs.priceGets = [n \in {"s3", "tier"} |-> IF n = "s3" THEN "failed" ELSE "listed"]
  /\ DefaultContext(eArgs.def, eOut.pricingByDef).vals["s3Combo"] = NumV(Zero)
  /\ DefaultContext(eArgs.def, eOut.pricingByDef).tiers["s3Tiers"][1].price = Zero
  /\ DefaultContext(eArgs.def, eOut.pricingByDef).vals["tierCombo"] = NumV(Rat(1, 2))
  /\ DOMAIN eOut.cache = {PricingKey("tier", "US East (N. Virginia)")}

\* --------------------------------------------- claims: the normalizer, again

\* C28 as stated: buildCalcComponents is idempotent over its own output, for
\* every field list and every userInputs: what configure_service returns is
\* persisted unchanged when it is passed back to create_estimate.
C28_Idempotent ==
  nPhase = "rebuilt" => nOut = buildCalcComponents(nInputs, nUser)

\* An entry of a result that a second pass stores as it is: the plain object
\* of a pricingStrategy field, or a {value, unit} record whose value resolves
\* to itself.
StableEntry(inp, entry) ==
  IF inp.type = "pricingStrategy" THEN ~entry.w /\ entry.val.k = "obj"
  ELSE /\ entry.w
       /\ (inp.options # <<>> /\ entry.val.k = "str") =>
            \E o \in 1..Len(inp.options) :
              /\ entry.val.v \in {inp.options[o].label, inp.options[o].value}
              /\ \A e \in 1..(o - 1) :
                   entry.val.v \notin {inp.options[e].label, inp.options[e].value}
              /\ inp.options[o].value = entry.val.v

Stable(inputs, cc) == \A k \in DOMAIN cc : StableEntry(InputMap(inputs, k), cc[k])

\* C28: buildCalcComponents(inputs, buildCalcComponents(inputs, u)) equals
\* buildCalcComponents(inputs, u) when, in that first result, every string of a
\* field with options that is a label or a value of an option is the value of
\* the first option that has it as label or value, and every entry of a
\* pricingStrategy field is a plain object; a first result with another entry
\* is changed by the second pass.
C28_IdempotentWhenStable ==
  nPhase = "rebuilt" =>
    (Stable(nInputs, buildCalcComponents(nInputs, nUser))
       <=> nOut = buildCalcComponents(nInputs, nUser))

\* The option labelled "1" of tier is given: it is stored as "1", the value of
\* the first option, and stays "1" in the second pass; requests keeps its default
\* and the pricing strategy its plain object.
C28_Witness ==
  /\ nPhase = "rebuilt"
  /\ nUser = [k \in {"tier"} |-> Bare(Str("1"))]
  /\ nOut = buildCalcComponents(nInputs, nUser)
  /\ {"tier", "requests", "pricing"} \subseteq DOMAIN nOut
  /\ nOut["tier"] = Wrapped(Str("1"), "")
  /\ nOut["requests"] = Wrapped(Num("1000"), "")
  /\ nOut["pricing"] = Bare(Obj("model=ondemand;"))

\* The option labelled "0" of level is given: the first pass stores its value
\* "1", the second pass takes "1" for the label of the first option and stores
\* "2".
C28_ReResolved ==
  /\ nPhase = "rebuilt"
  /\ nUser = [k \in {"level"} |-> Bare(Str("0"))]
  /\ "level" \in DOMAIN nOut
  /\ buildCalcComponents(nInputs, nUser)["level"] = Wrapped(Str("1"), "")
  /\ nOut["level"] = Wrapped(Str("2"), "")

\* ------------------------------------------ claims: evaluated and persisted

\* The entry create_estimate assembles for the service the evaluator was called
\* for, its GETs of the definitions having the outcomes the evaluator's had.
EntryOfCall ==
  BuildEntry(Svc(cArgs.serviceCode, cArgs.region, "", "", 0, 0, CC(cArgs.userInputs), "", ""),
             "k", TRUE, cArgs.subOk, cOut)

\* The calculationComponents the entry stores for a definition: its own for
\* the parent, those of the subServices record for a sub-service.
StoredFor(entry, code) ==
  IF code = entry.serviceCode THEN entry.calculationComponents
  ELSE LET j == CHOOSE j \in 1..Len(entry.subServices) : entry.subServices[j].serviceCode = code
       IN entry.subServices[j].calculationComponents

\* C29 as stated: for an auto-calculated service, every definition the
\* evaluator evaluates, the parent and each sub-service, is evaluated over the
\* calculationComponents the entry stores for it.
C29_EvaluatedIsPersisted ==
  (ePhase = "priced" /\ ~cOut.null) =>
    \A i \in 1..Len(cOut.evaluated) :
      cOut.evaluated[i].calculationComponents
        = StoredFor(EntryOfCall, cOut.evaluated[i].serviceCode)

\* The parent's half of C29: the parent definition is evaluated over the
\* calculationComponents of the ServiceEntry.
C29_ParentEvaluatedIsPersisted ==
  (ePhase = "priced" /\ ~cOut.null) =>
    /\ cOut.evaluated[Len(cOut.evaluated)].serviceCode = cArgs.serviceCode
    /\ cOut.evaluated[Len(cOut.evaluated)].calculationComponents
         = EntryOfCall.calculationComponents
    /\ cOut.calculationComponents = EntryOfCall.calculationComponents

\* pricedService is priced with units = 7: its sub-service pricedSub is
\* evaluated with units {value: 7} among its calculationComponents, while its
\* subServices record stores the default of requests alone.
C29_SubEvaluatedWithUserInputs ==
  /\ ePhase = "priced"
  /\ ~cOut.null
  /\ cArgs.serviceCode = "pricedService"
  /\ cArgs.userInputs = [k \in {"units"} |-> Bare(Num("7"))]
  /\ cArgs.subOk[1]
  /\ cOut.evaluated[1].serviceCode = "pricedSub"
  /\ DOMAIN cOut.evaluated[1].calculationComponents = {"requests", "units"}
  /\ DOMAIN EntryOfCall.subServices[1].calculationComponents = {"requests"}
  /\ cOut.evaluated[Len(cOut.evaluated)].calculationComponents = EntryOfCall.calculationComponents

=============================================================================
